---------------------------- MODULE Spec2Model ----------------------------
(***************************************************************************)
(* A model of aurora's typed client (src/src/aurora/client.py): the error  *)
(* classifier, the retry/backoff policy, the result normalizer, and the    *)
(* two operations chat and search of AuroraClient.                         *)
(*                                                                         *)
(* Python values are records [kind, val]: None, a str (the sequence of its *)
(* characters) or a list (the sequence of its items).  An exception is a   *)
(* record of its type, its message and the status code it carries, if any. *)
(* Each call of chat or search is a task of the one asyncio event loop;    *)
(* `running` is the task that holds the loop.                              *)
(***************************************************************************)
EXTENDS Integers, Sequences, FiniteSets, TLC

(***************************************************************************)
(* Bounds of the model.                                                    *)
(***************************************************************************)
\* The longest search_results / results sequence the upstream returns.
MaxRows == 2
\* The length of the longest snippet the upstream returns.
LongSnippet == 600
\* The number of fragments a classifier input is put together from.
MaxParts == 2
\* The number of requests the handlers take.
MaxRequests == 3

(***************************************************************************)
(* Program constants.                                                      *)
(***************************************************************************)
\* A policy of one attempt more.
MaxRetriesOneMore == 3 + 1
MAX_RETRIES == 3
RETRY_BASE_DELAY == 1
\* The literal of the slice [:500] applied to a snippet.
SnippetLimit == 500

(***************************************************************************)
(* Python values.                                                          *)
(***************************************************************************)
NoneVal == [kind |-> "None", val |-> <<>>]
Str(s) == [kind |-> "str", val |-> s]
List(l) == [kind |-> "list", val |-> l]

\* bool(v): None, 0, 0.0, False, "" and [] are falsy.
Truthy(v) ==
    CASE v.kind = "None" -> FALSE
      [] v.kind \in {"int", "float"} -> v.val # 0
      [] v.kind = "bool" -> v.val
      [] v.kind = "object" -> TRUE
      [] OTHER -> v.val # <<>>

\* a or b
Or(a, b) == IF Truthy(a) THEN a ELSE b

\* s[:n] for n >= 0
Slice(s, n) == SubSeq(s, 1, IF Len(s) < n THEN Len(s) ELSE n)

UpperCase ==
    <<"A","B","C","D","E","F","G","H","I","J","K","L","M",
      "N","O","P","Q","R","S","T","U","V","W","X","Y","Z">>
LowerCase ==
    <<"a","b","c","d","e","f","g","h","i","j","k","l","m",
      "n","o","p","q","r","s","t","u","v","w","x","y","z">>

\* str.lower() on one ASCII character.
LowerChar(c) ==
    IF \E i \in 1..Len(UpperCase) : UpperCase[i] = c
    THEN LowerCase[CHOOSE i \in 1..Len(UpperCase) : UpperCase[i] = c]
    ELSE c

\* str.lower()
Lower(s) == [i \in 1..Len(s) |-> LowerChar(s[i])]

\* pat in s
Contains(s, pat) ==
    \E i \in 0..(Len(s) - Len(pat)) : SubSeq(s, i + 1, i + Len(pat)) = pat

(***************************************************************************)
(* Exceptions.                                                             *)
(***************************************************************************)
\* An exception that carries the HTTP status of the provider's answer.
ExcWithStatus(type, msg, status_code) ==
    [type |-> type, msg |-> msg, status_code |-> status_code]

Exc(type, msg) == ExcWithStatus(type, msg, NoneVal)

\* str(e)
StrOf(e) == e.msg

RateLimitError(msg) == Exc("RateLimitError", msg)

(***************************************************************************)
(* _is_rate_limit_error                                                    *)
(***************************************************************************)
Lit429 == <<"4","2","9">>
LitRateLimit == <<"r","a","t","e"," ","l","i","m","i","t">>

IsRateLimitErrorNoLower(error) ==
    Contains(StrOf(error), Lit429) \/ Contains(StrOf(error), LitRateLimit)

IsRateLimitError(error) ==
    LET error_str == Lower(StrOf(error))
    IN  Contains(StrOf(error), Lit429) \/ Contains(error_str, LitRateLimit)


(***************************************************************************)
(* Result types.                                                           *)
(***************************************************************************)
IntVal(n) == [kind |-> "int", val |-> n]
Bool(b) == [kind |-> "bool", val |-> b]
\* A float, as its number of tenths.
Float(tenths) == [kind |-> "float", val |-> tenths]

SearchResult(title, snippet, url, published_date) ==
    [title |-> title, snippet |-> snippet, url |-> url,
     published_date |-> published_date]

ChatResult(id, model, created, content, finish_reason, usage, search_results) ==
    [id |-> id, model |-> model, created |-> created, content |-> content,
     finish_reason |-> finish_reason, usage |-> usage,
     search_results |-> search_results]

(***************************************************************************)
(* Upstream rows.  A row is a dict (its entries are `items`) or another    *)
(* object (its attributes are `attrs`); a dict subclass has both.  A       *)
(* mapping without entries is EmptyMap.                                    *)
(***************************************************************************)
EmptyMap == [k \in {} |-> NoneVal]
DictRow(items) == [isdict |-> TRUE, items |-> items, attrs |-> EmptyMap]
ObjectRow(attrs) == [isdict |-> FALSE, items |-> EmptyMap, attrs |-> attrs]

\* hasattr(obj, name) for an object whose attributes are the record's fields.
HasAttr(obj, name) == name \in DOMAIN obj

(***************************************************************************)
(* _get_search_result_value                                                *)
(***************************************************************************)
GetSearchResultValueAttrOnly(obj, key, default) ==
    IF key \in DOMAIN obj.attrs THEN obj.attrs[key] ELSE default

GetSearchResultValueWithFallback(obj, key, default) ==
    IF obj.isdict /\ key \in DOMAIN obj.items THEN obj.items[key]
    ELSE IF key \in DOMAIN obj.attrs THEN obj.attrs[key] ELSE default

GetSearchResultValue(obj, key, default) ==
    IF obj.isdict
    THEN IF key \in DOMAIN obj.items THEN obj.items[key] ELSE default
    ELSE IF key \in DOMAIN obj.attrs THEN obj.attrs[key] ELSE default

(***************************************************************************)
(* The SearchResult built from one row by chat (lines 159-164) and by      *)
(* search (lines 230-235).                                                 *)
(***************************************************************************)
EmptyStr == Str(<<>>)

ChatRowUncut(r) ==
    SearchResult(
        Or(GetSearchResultValue(r, "title", EmptyStr), EmptyStr),
        Or(GetSearchResultValue(r, "snippet", EmptyStr), EmptyStr),
        GetSearchResultValue(r, "url", NoneVal),
        GetSearchResultValue(r, "published_date", NoneVal))

ChatRowUrlDefaulted(r) ==
    SearchResult(
        Or(GetSearchResultValue(r, "title", EmptyStr), EmptyStr),
        Str(Slice(Or(GetSearchResultValue(r, "snippet", EmptyStr), EmptyStr).val,
                  SnippetLimit)),
        Or(GetSearchResultValue(r, "url", EmptyStr), EmptyStr),
        Or(GetSearchResultValue(r, "published_date", EmptyStr), EmptyStr))

ChatRow(r) ==
    SearchResult(
        Or(GetSearchResultValue(r, "title", EmptyStr), EmptyStr),
        Str(Slice(Or(GetSearchResultValue(r, "snippet", EmptyStr), EmptyStr).val,
                  SnippetLimit)),
        GetSearchResultValue(r, "url", NoneVal),
        GetSearchResultValue(r, "published_date", NoneVal))

SearchRowTitleUnguarded(r) ==
    SearchResult(
        GetSearchResultValue(r, "title", EmptyStr),
        Str(Slice(Or(GetSearchResultValue(r, "snippet", EmptyStr), EmptyStr).val,
                  SnippetLimit)),
        GetSearchResultValue(r, "url", NoneVal),
        GetSearchResultValue(r, "published_date", NoneVal))

SearchRow(r) ==
    SearchResult(
        Or(GetSearchResultValue(r, "title", EmptyStr), EmptyStr),
        Str(Slice(Or(GetSearchResultValue(r, "snippet", EmptyStr), EmptyStr).val,
                  SnippetLimit)),
        GetSearchResultValue(r, "url", NoneVal),
        GetSearchResultValue(r, "published_date", NoneVal))

(***************************************************************************)
(* AuroraClient.chat after the retry policy has returned (lines 153-180).  *)
(***************************************************************************)
Return(v) == [kind |-> "return", value |-> v, error |-> Exc("", <<>>)]
Raise(e) == [kind |-> "raise", value |-> NoneVal, error |-> e]
Pending == [kind |-> "pending", value |-> NoneVal, error |-> Exc("", <<>>)]

NoChoicesError ==
    Exc("ValueError",
        <<"R","e","s","p","o","n","s","e"," ","h","a","s"," ",
          "n","o"," ","c","h","o","i","c","e","s">>)

\* not response.choices
NoChoices(response) == ~Truthy(response.choices)

ChatSearchResultsKeepEmpty(response) ==
    IF HasAttr(response, "search_results") /\ response.search_results.kind = "list"
    THEN List([i \in 1..Len(response.search_results.val) |->
                  ChatRow(response.search_results.val[i])])
    ELSE NoneVal

ChatSearchResults(response) ==
    IF HasAttr(response, "search_results") /\ Truthy(response.search_results)
    THEN List([i \in 1..Len(response.search_results.val) |->
                  ChatRow(response.search_results.val[i])])
    ELSE NoneVal

\* A result made of the last choice, with the usage object as it came.
ChatBuildLastChoice(response) ==
    Return(ChatResult(
        response.id, response.model, response.created,
        response.choices.val[Len(response.choices.val)].message.content,
        response.choices.val[Len(response.choices.val)].finish_reason,
        response.usage,
        ChatSearchResults(response)))

\* lines 168-180
ChatBuild(response) ==
    Return(ChatResult(
        response.id, response.model, response.created,
        response.choices.val[1].message.content,
        response.choices.val[1].finish_reason,
        [prompt_tokens |-> response.usage.prompt_tokens,
         completion_tokens |-> response.usage.completion_tokens,
         total_tokens |-> response.usage.total_tokens],
        ChatSearchResults(response)))

\* Without the check of line 153, choices[0] of no choices fails by itself.
ChatOutcomeUnchecked(response) ==
    IF response.choices.kind = "None"
    THEN Raise(Exc("TypeError", <<"N","o","n","e","T","y","p","e">>))
    ELSE IF Len(response.choices.val) = 0
         THEN Raise(Exc("IndexError", <<"l","i","s","t"," ","i","n","d","e","x">>))
         ELSE ChatBuild(response)

\* lines 153-180
ChatOutcome(response) ==
    IF NoChoices(response) THEN Raise(NoChoicesError) ELSE ChatBuild(response)

(***************************************************************************)
(* AuroraClient.search after the retry policy has returned (229-237).      *)
(***************************************************************************)
SearchOutcomeNoneIfEmpty(response) ==
    IF Truthy(response.results)
    THEN Return(List([i \in 1..Len(response.results.val) |->
                         SearchRow(response.results.val[i])]))
    ELSE Return(NoneVal)

\* The rows in the opposite order.
SearchOutcomeReversed(response) ==
    Return(List([i \in 1..Len(response.results.val) |->
                    SearchRow(response.results.val[
                        Len(response.results.val) + 1 - i])]))

SearchOutcome(response) ==
    Return(List([i \in 1..Len(response.results.val) |->
                    SearchRow(response.results.val[i])]))


(***************************************************************************)
(* _make_request of chat (lines 130-149) and of search (lines 210-225):    *)
(* the keyword arguments of the upstream call, made of the call's          *)
(* arguments a.                                                            *)
(***************************************************************************)
\* kwargs with kwargs[key] = value set when cond holds.
SetIf(cond, kwargs, key, value) ==
    IF cond THEN (key :> value) @@ kwargs ELSE kwargs

ChatKwargsUnlessNone(a) ==
    LET kwargs == [model |-> a.model, messages |-> a.messages,
                   temperature |-> a.temperature, top_p |-> a.top_p,
                   top_k |-> a.top_k,
                   frequency_penalty |-> a.frequency_penalty,
                   presence_penalty |-> a.presence_penalty,
                   search_mode |-> a.search_mode,
                   disable_search |-> a.disable_search]
        k1 == SetIf(a.max_tokens.kind # "None", kwargs, "max_tokens", a.max_tokens)
        k2 == SetIf(a.search_recency_filter.kind # "None", k1,
                    "search_recency_filter", a.search_recency_filter)
    IN  SetIf(a.reasoning_effort.kind # "None", k2,
              "reasoning_effort", a.reasoning_effort)

ChatKwargs(a) ==
    LET kwargs == [model |-> a.model, messages |-> a.messages,
                   temperature |-> a.temperature, top_p |-> a.top_p,
                   top_k |-> a.top_k,
                   frequency_penalty |-> a.frequency_penalty,
                   presence_penalty |-> a.presence_penalty,
                   search_mode |-> a.search_mode,
                   disable_search |-> a.disable_search]
        k1 == SetIf(Truthy(a.max_tokens), kwargs, "max_tokens", a.max_tokens)
        k2 == SetIf(Truthy(a.search_recency_filter), k1,
                    "search_recency_filter", a.search_recency_filter)
    IN  SetIf(Truthy(a.reasoning_effort), k2,
              "reasoning_effort", a.reasoning_effort)

SearchKwargsUnlessNone(a) ==
    LET kwargs == [query |-> a.query, max_results |-> a.max_results,
                   max_tokens_per_page |-> a.max_tokens_per_page]
        k1 == SetIf(a.search_recency_filter.kind # "None", kwargs,
                    "search_recency_filter", a.search_recency_filter)
        k2 == SetIf(a.search_domain_filter.kind # "None", k1,
                    "search_domain_filter", a.search_domain_filter)
        k3 == SetIf(a.search_language_filter.kind # "None", k2,
                    "search_language_filter", a.search_language_filter)
    IN  SetIf(a.country.kind # "None", k3, "country", a.country)

SearchKwargs(a) ==
    LET kwargs == [query |-> a.query, max_results |-> a.max_results,
                   max_tokens_per_page |-> a.max_tokens_per_page]
        k1 == SetIf(Truthy(a.search_recency_filter), kwargs,
                    "search_recency_filter", a.search_recency_filter)
        k2 == SetIf(Truthy(a.search_domain_filter), k1,
                    "search_domain_filter", a.search_domain_filter)
        k3 == SetIf(Truthy(a.search_language_filter), k2,
                    "search_language_filter", a.search_language_filter)
    IN  SetIf(Truthy(a.country), k3, "country", a.country)

\* The keyword arguments of the upstream call of operation o.
Kwargs(o, a) == IF o = "chat" THEN ChatKwargs(a) ELSE SearchKwargs(a)

(***************************************************************************)
(* The arguments chat and search are called with.                          *)
(***************************************************************************)
StrSonar == Str(<<"s","o","n","a","r">>)
StrWeb == Str(<<"w","e","b">>)
StrMonth == Str(<<"m","o","n","t","h">>)
StrHigh == Str(<<"h","i","g","h">>)
StrQuery == Str(<<"p","y","t","h","o","n">>)
StrUS == Str(<<"U","S">>)
StrDomain == Str(<<"g","i","t","h","u","b",".","c","o","m">>)
UserMessages ==
    List(<<[role |-> Str(<<"u","s","e","r">>), content |-> Str(<<"H","i">>)]>>)

\* chat(model, messages) with the defaults of the signature (lines 95-104).
ChatDefaults ==
    [model |-> StrSonar, messages |-> UserMessages, max_tokens |-> NoneVal,
     temperature |-> Float(2), top_p |-> Float(9), top_k |-> IntVal(0),
     frequency_penalty |-> IntVal(0), presence_penalty |-> IntVal(0),
     search_mode |-> StrWeb, disable_search |-> Bool(FALSE),
     search_recency_filter |-> NoneVal, reasoning_effort |-> NoneVal]

\* search(query) with the defaults of the signature (lines 185-190).
SearchDefaults ==
    [query |-> StrQuery, max_results |-> IntVal(5),
     max_tokens_per_page |-> IntVal(2048), search_recency_filter |-> NoneVal,
     search_domain_filter |-> NoneVal, search_language_filter |-> NoneVal,
     country |-> NoneVal]

ChatArgSets ==
    { [ChatDefaults EXCEPT !.max_tokens = mt, !.search_recency_filter = rf,
                           !.reasoning_effort = re, !.temperature = te,
                           !.top_k = tk, !.disable_search = ds,
                           !.frequency_penalty = fp] :
        mt \in {NoneVal, IntVal(0), IntVal(1000)},
        rf \in {NoneVal, EmptyStr, StrMonth},
        re \in {NoneVal, EmptyStr, StrHigh},
        te \in {Float(2), Float(0)},
        tk \in {IntVal(0), IntVal(10)},
        ds \in {Bool(FALSE), Bool(TRUE)},
        fp \in {IntVal(0), Float(5)} }

SearchArgSets ==
    { [SearchDefaults EXCEPT !.search_recency_filter = rf,
                             !.search_domain_filter = df,
                             !.search_language_filter = lf,
                             !.country = co, !.max_results = mr] :
        rf \in {NoneVal, EmptyStr, StrMonth},
        df \in {NoneVal, List(<<>>), List(<<StrDomain>>)},
        lf \in {NoneVal, List(<<>>), List(<<StrUS>>)},
        co \in {NoneVal, EmptyStr, StrUS},
        mr \in {IntVal(5), IntVal(0)} }

\* The arguments of the calls of the client's life: the defaults, and every
\* optional argument given.
CallArgs(o) ==
    IF o = "chat"
    THEN { ChatDefaults,
           [ChatDefaults EXCEPT !.max_tokens = IntVal(1000),
                                !.search_recency_filter = StrMonth,
                                !.reasoning_effort = StrHigh,
                                !.disable_search = Bool(TRUE)] }
    ELSE { SearchDefaults,
           [SearchDefaults EXCEPT !.max_results = IntVal(1),
                                  !.search_recency_filter = StrMonth,
                                  !.search_domain_filter = List(<<StrDomain>>),
                                  !.search_language_filter = List(<<StrUS>>),
                                  !.country = StrUS] }

(***************************************************************************)
(* What the upstream provider can answer.                                  *)
(***************************************************************************)
Obj(fields) == [kind |-> "object", val |-> fields]

SnippetChars == <<"a","b","c","d","e","f","g">>

\* A text of n characters whose characters differ from place to place.
SnippetText(n) == [i \in 1..n |-> SnippetChars[(i % Len(SnippetChars)) + 1]]

TitlePython == Str(<<"P","y","t","h","o","n">>)
TitleResult == Str(<<"R","e","s","u","l","t">>)
UrlExample == Str(<<"h","t","t","p","s",":","/","/","a",".","e","x","a","m","p","l","e">>)
DateExample == Str(<<"2","0","2","4","-","0","1","-","0","1">>)

UpstreamRows ==
    { DictRow([title |-> TitlePython, snippet |-> Str(SnippetText(LongSnippet)),
               url |-> UrlExample, published_date |-> DateExample]),
      ObjectRow([title |-> TitleResult, snippet |-> Str(SnippetText(SnippetLimit)),
                 url |-> NoneVal, published_date |-> NoneVal]),
      DictRow([snippet |-> Str(SnippetText(SnippetLimit + 1))]),
      ObjectRow([title |-> NoneVal, snippet |-> NoneVal, url |-> UrlExample]),
      DictRow([title |-> EmptyStr, snippet |-> EmptyStr, url |-> EmptyStr,
               published_date |-> DateExample]),
      ObjectRow([title |-> TitlePython,
                 snippet |-> Str(SnippetText(SnippetLimit - 1))]),
      [isdict |-> TRUE, items |-> [url |-> UrlExample],
       attrs |-> [title |-> TitleResult, snippet |-> Str(SnippetText(3))]],
      ObjectRow([title |-> TitleResult, snippet |-> Str(SnippetText(3)),
                 url |-> UrlExample]) }

\* The sequences over S of length at most n.
SeqsUpTo(S, n) == UNION { [1..k -> S] : k \in 0..n }

RowLists == { List(l) : l \in SeqsUpTo(UpstreamRows, MaxRows) }

Choice(content, finish_reason) ==
    [message |-> [role |-> "assistant", content |-> content],
     finish_reason |-> finish_reason]

ChoiceStop == Choice(Str(<<"H","i">>), Str(<<"s","t","o","p">>))
ChoiceLength == Choice(Str(<<"H","e","y">>), Str(<<"l","e","n","g","t","h">>))

ChoiceLists ==
    { NoneVal, List(<<>>), List(<<ChoiceStop>>), List(<<ChoiceLength, ChoiceStop>>) }

ChatFields(choices) ==
    [id |-> Str(<<"i","d","1">>), model |-> Str(<<"s","o","n","a","r">>),
     created |-> IntVal(1700000000), choices |-> choices,
     usage |-> [prompt_tokens |-> IntVal(10), completion_tokens |-> IntVal(5),
                total_tokens |-> IntVal(15), citation_tokens |-> IntVal(3)]]

\* A chat response without the attribute search_results, and one with it.
ChatResponseBare(choices) == Obj(ChatFields(choices))
ChatResponseWith(choices, search_results) ==
    Obj([id |-> ChatFields(choices).id, model |-> ChatFields(choices).model,
         created |-> ChatFields(choices).created, choices |-> choices,
         usage |-> ChatFields(choices).usage,
         search_results |-> search_results])

ChatResponses ==
    { ChatResponseBare(c) : c \in ChoiceLists }
    \cup { ChatResponseWith(c, sr) : c \in ChoiceLists, sr \in {NoneVal} \cup RowLists }

SearchResponses == { Obj([results |-> rows]) : rows \in RowLists }

Responses(o) == IF o = "chat" THEN ChatResponses ELSE SearchResponses

Msg429 ==
    <<"4","2","9"," ","T","o","o"," ","M","a","n","y"," ",
      "R","e","q","u","e","s","t","s">>
MsgRateLimit ==
    <<"R","a","t","e"," ","L","i","m","i","t"," ","e","x","c","e","e","d","e","d">>
MsgTimeout ==
    <<"C","o","n","n","e","c","t","i","o","n"," ","t","i","m","e","o","u","t">>
MsgTooMany == <<"T","o","o"," ","M","a","n","y"," ","R","e","q","u","e","s","t","s">>

\* The exceptions the upstream call raises.
UpstreamErrors ==
    { Exc("Exception", Msg429),
      ExcWithStatus("APIStatusError", MsgRateLimit, IntVal(429)),
      Exc("TimeoutError", MsgTimeout),
      ExcWithStatus("APIStatusError", MsgTooMany, IntVal(429)) }

(***************************************************************************)
(* The callers of the client: the HTTP handlers of api.py and the UI       *)
(* handlers of ui.py.  A reply is what the handler returned or raised.     *)
(***************************************************************************)
Reply(kind, status, detail, body) ==
    [kind |-> kind, status |-> status, detail |-> detail, body |-> body]

NoReply == Reply("none", NoneVal, <<>>, NoneVal)

Whitespace == {" ", "\t", "\n", "\r"}

\* str.strip() of a sequence of characters.
RECURSIVE LStrip(_)
LStrip(cs) ==
    IF cs # <<>> /\ Head(cs) \in Whitespace THEN LStrip(Tail(cs)) ELSE cs

RECURSIVE RStrip(_)
RStrip(cs) ==
    IF cs # <<>> /\ cs[Len(cs)] \in Whitespace
    THEN RStrip(SubSeq(cs, 1, Len(cs) - 1))
    ELSE cs

\* str_strip_whitespace of the response schemas.
StrStrip(v) == IF v.kind = "str" THEN Str(RStrip(LStrip(v.val))) ELSE v

\* api.py, _search_result_to_item.
SearchResultToItem(r) ==
    [title |-> StrStrip(r.title), snippet |-> StrStrip(r.snippet),
     url |-> StrStrip(r.url), published_date |-> StrStrip(r.published_date)]

SearchItems(results) ==
    List([i \in 1..Len(results.val) |-> SearchResultToItem(results.val[i])])

StrAssistant == Str(<<"a","s","s","i","s","t","a","n","t">>)

\* A response that leaves search_results null for None alone.
ApiChatResponseKeepsEmpty(r) ==
    [id |-> StrStrip(r.id), model |-> StrStrip(r.model), created |-> r.created,
     choices |-> List(<<[message |-> [role |-> StrAssistant,
                                      content |-> StrStrip(r.content)],
                         finish_reason |-> StrStrip(r.finish_reason)]>>),
     usage |-> [prompt_tokens |-> r.usage.prompt_tokens,
                completion_tokens |-> r.usage.completion_tokens,
                total_tokens |-> r.usage.total_tokens],
     search_results |-> IF r.search_results.kind = "list"
                        THEN SearchItems(r.search_results)
                        ELSE NoneVal]

\* api.py lines 84-104: the ChatResponse made of a ChatResult.
ApiChatResponse(r) ==
    [id |-> StrStrip(r.id), model |-> StrStrip(r.model), created |-> r.created,
     choices |-> List(<<[message |-> [role |-> StrAssistant,
                                      content |-> StrStrip(r.content)],
                         finish_reason |-> StrStrip(r.finish_reason)]>>),
     usage |-> [prompt_tokens |-> r.usage.prompt_tokens,
                completion_tokens |-> r.usage.completion_tokens,
                total_tokens |-> r.usage.total_tokens],
     search_results |-> IF Truthy(r.search_results)
                        THEN SearchItems(r.search_results)
                        ELSE NoneVal]

\* api.py lines 136-137: the SearchResponse made of the results.
ApiSearchResponse(results, query) ==
    [results |-> SearchItems(results), query |-> StrStrip(query),
     count |-> IntVal(Len(results.val))]

HTTPException(status_code, detail) ==
    Reply("HTTPException", IntVal(status_code), detail, NoneVal)

DetailRateLimited ==
    <<"R","a","t","e"," ","l","i","m","i","t","e","d","."," ","T","o","o",
      " ","m","a","n","y"," ","r","e","q","u","e","s","t","s","."," ","T",
      "r","y"," ","a","g","a","i","n"," ","l","a","t","e","r",".">>
ChatApiError == <<"C","h","a","t"," ","A","P","I"," ","e","r","r","o","r",":"," ">>
SearchApiError ==
    <<"S","e","a","r","c","h"," ","A","P","I"," ","e","r","r","o","r",":"," ">>

\* A handler that answers every failure as a server error.
ApiReplyAlwaysServerError(o, a, res) ==
    IF res.kind = "return"
    THEN Reply("response", IntVal(200), <<>>,
               IF o = "chat" THEN ApiChatResponse(res.value)
               ELSE ApiSearchResponse(res.value, a.query))
    ELSE HTTPException(500, (IF o = "chat" THEN ChatApiError
                             ELSE SearchApiError) \o StrOf(res.error))

\* api.py, _chat (lines 67-110) and _search (lines 125-144), on the outcome
\* res of the client's call.
ApiReply(o, a, res) ==
    IF res.kind = "return"
    THEN Reply("response", IntVal(200), <<>>,
               IF o = "chat" THEN ApiChatResponse(res.value)
               ELSE ApiSearchResponse(res.value, a.query))
    ELSE IF res.error.type = "RateLimitError"
    THEN HTTPException(429, DetailRateLimited)
    ELSE HTTPException(500, (IF o = "chat" THEN ChatApiError
                             ELSE SearchApiError) \o StrOf(res.error))

GrError(message) == Reply("gr.Error", NoneVal, message, NoneVal)

ChatFailed == <<"C","h","a","t"," ","f","a","i","l","e","d",":"," ">>
SearchFailed == <<"S","e","a","r","c","h"," ","f","a","i","l","e","d",":"," ">>
NoResultsFound == Str(<<"N","o"," ","r","e","s","u","l","t","s"," ","f","o","u","n","d">>)

\* The rows of the results that have a url.
RECURSIVE WithUrl(_)
WithUrl(rows) ==
    IF rows = <<>> THEN <<>>
    ELSE IF Truthy(Head(rows).url) THEN <<Head(rows)>> \o WithUrl(Tail(rows))
    ELSE WithUrl(Tail(rows))

\* ui.py lines 26-37: the response, the usage and the sources of a chat; the
\* usage is given by its three numbers and the sources by the title and the
\* url of each line.
UiChatValue(r) ==
    <<r.content,
      <<r.usage.total_tokens, r.usage.prompt_tokens, r.usage.completion_tokens>>,
      IF Truthy(r.search_results)
      THEN [i \in 1..Len(WithUrl(r.search_results.val)) |->
               <<WithUrl(r.search_results.val)[i].title,
                 WithUrl(r.search_results.val)[i].url>>]
      ELSE <<>>>>

\* ui.py lines 59-71: the text of a search, given by the lines of each
\* result: its number and title, its snippet, and its url if it has one.
UiSearchValue(results) ==
    IF ~Truthy(results) THEN NoResultsFound
    ELSE List([i \in 1..Len(results.val) |->
                 <<IntVal(i), results.val[i].title, results.val[i].snippet>>
                 \o (IF Truthy(results.val[i].url)
                     THEN <<results.val[i].url>> ELSE <<>>)])

\* ui.py, chat_handler (lines 18-40) and search_handler (lines 52-74), on the
\* outcome res of the client's call.
UiReply(o, a, res) ==
    IF res.kind = "return"
    THEN Reply("value", NoneVal, <<>>,
               IF o = "chat" THEN UiChatValue(res.value)
               ELSE UiSearchValue(res.value))
    ELSE GrError((IF o = "chat" THEN ChatFailed ELSE SearchFailed)
                 \o StrOf(res.error))

\* What the caller on surface s makes of the outcome of its call.
HandlerReply(s, o, a, res) ==
    CASE s = "http" -> ApiReply(o, a, res)
      [] s = "ui" -> UiReply(o, a, res)
      [] OTHER -> NoReply

(***************************************************************************)
(* The requests: schemas.py validates the body of an HTTP request before   *)
(* the handler runs, and the UI handlers look at their text themselves.    *)
(***************************************************************************)
StrOpt(v, S) == v.kind = "None" \/ (v.kind = "str" /\ v \in S)

\* A float field: an integer is taken as a float, and the value, in tenths,
\* lies in lo..hi.
FloatIn(v, lo, hi) ==
    \/ v.kind = "float" /\ v.val \in lo..hi
    \/ v.kind = "int" /\ 10 * v.val \in lo..hi

AsFloat(v) == IF v.kind = "int" THEN Float(10 * v.val) ELSE v

ListUpTo(v, n) == v.kind = "None" \/ (v.kind = "list" /\ Len(v.val) <= n)

StripAll(v) ==
    IF v.kind = "list" THEN List([i \in 1..Len(v.val) |-> StrStrip(v.val[i])])
    ELSE v

Recencies ==
    { Str(<<"d","a","y">>), Str(<<"w","e","e","k">>), StrMonth,
      Str(<<"y","e","a","r">>) }

\* A search request that takes any max_results and max_tokens_per_page.
SearchQueryValidAnyRange(q) ==
    /\ q.query.kind = "str"
    /\ Len(StrStrip(q.query).val) \in 1..500
    /\ q.max_results.kind = "int"
    /\ q.max_tokens_per_page.kind = "int"
    /\ StrOpt(q.search_recency_filter, Recencies)
    /\ ListUpTo(q.search_domain_filter, 20)
    /\ ListUpTo(q.search_language_filter, 10)
    /\ q.country.kind \in {"None", "str"}

\* schemas.py, SearchQuery (lines 8-19).
SearchQueryValid(q) ==
    /\ q.query.kind = "str"
    /\ Len(StrStrip(q.query).val) \in 1..500
    /\ q.max_results.kind = "int"
    /\ q.max_results.val \in 1..50
    /\ q.max_tokens_per_page.kind = "int"
    /\ q.max_tokens_per_page.val \in 256..4096
    /\ StrOpt(q.search_recency_filter, Recencies)
    /\ ListUpTo(q.search_domain_filter, 20)
    /\ ListUpTo(q.search_language_filter, 10)
    /\ q.country.kind \in {"None", "str"}

\* The SearchQuery a valid body makes, as _search hands it to the client
\* (api.py lines 127-135).
SearchQueryArgs(q) ==
    [q EXCEPT !.query = StrStrip(@), !.country = StrStrip(@),
              !.search_domain_filter = StripAll(@),
              !.search_language_filter = StripAll(@)]

Models ==
    { StrSonar,
      Str(<<"s","o","n","a","r","-","p","r","o">>),
      Str(<<"s","o","n","a","r","-","r","e","a","s","o","n","i","n","g","-",
            "p","r","o">>),
      Str(<<"s","o","n","a","r","-","d","e","e","p","-","r","e","s","e","a",
            "r","c","h">>) }

SearchModes == { StrWeb, Str(<<"a","c","a","d","e","m","i","c">>), Str(<<"s","e","c">>) }

Efforts == { Str(<<"l","o","w">>), Str(<<"m","e","d","i","u","m">>), StrHigh }

Roles == { Str(<<"u","s","e","r">>), StrAssistant,
           Str(<<"s","y","s","t","e","m">>) }

\* schemas.py, ChatQuery (lines 57-74) and ChatMessage (lines 48-54).
ChatQueryValid(q) ==
    /\ q.model \in Models
    /\ q.messages.kind = "list"
    /\ \A i \in 1..Len(q.messages.val) :
          /\ q.messages.val[i].role \in Roles
          /\ q.messages.val[i].content.kind = "str"
    /\ q.max_tokens.kind = "None"
          \/ (q.max_tokens.kind = "int" /\ q.max_tokens.val >= 1)
    /\ FloatIn(q.temperature, 0, 20)
    /\ FloatIn(q.top_p, 0, 10)
    /\ q.top_k.kind = "int" /\ q.top_k.val >= 0
    /\ FloatIn(q.frequency_penalty, -20, 20)
    /\ FloatIn(q.presence_penalty, -20, 20)
    /\ q.search_mode \in SearchModes
    /\ q.disable_search.kind = "bool"
    /\ StrOpt(q.search_recency_filter, Recencies)
    /\ StrOpt(q.reasoning_effort, Efforts)

\* The ChatQuery a valid body makes, as _chat hands it to the client
\* (api.py lines 68-82).
ChatQueryArgs(q) ==
    [q EXCEPT !.messages =
                 List([i \in 1..Len(q.messages.val) |->
                         [role |-> q.messages.val[i].role,
                          content |-> StrStrip(q.messages.val[i].content)]]),
              !.temperature = AsFloat(@), !.top_p = AsFloat(@),
              !.frequency_penalty = AsFloat(@),
              !.presence_penalty = AsFloat(@)]

\* The answer to a body that is not valid: the handler is not run.
RequestValidationError ==
    Reply("RequestValidationError", IntVal(422), <<>>, NoneVal)

EnterAMessage == <<"E","n","t","e","r"," ","a"," ","m","e","s","s","a","g","e">>
EnterASearchQuery ==
    <<"E","n","t","e","r"," ","a"," ","s","e","a","r","c","h"," ","q","u","e","r","y">>
StrNone == Str(<<"n","o","n","e">>)

\* ui.py line 15 and line 49: is there a text?
UiTextGiven(text) == StrStrip(text).val # <<>>

\* ui.py lines 20-25: the arguments of the chat of a message.
UiChatArgs(q) ==
    [ChatDefaults EXCEPT
        !.model = q.model,
        !.messages = List(<<[role |-> Str(<<"u","s","e","r">>),
                             content |-> q.message]>>),
        !.temperature = q.temperature,
        !.search_mode = q.search_mode]

\* ui.py lines 54-58: the arguments of the search of a query.
UiSearchArgs(q) ==
    [SearchDefaults EXCEPT
        !.query = q.query,
        !.max_results = q.max_results,
        !.search_recency_filter =
            IF q.recency_filter # StrNone THEN q.recency_filter ELSE NoneVal]

(***************************************************************************)
(* The state.                                                              *)
(***************************************************************************)
VARIABLES
    pc,         \* pc[t]: where task t is in chat/search and the retry loop
    op,         \* op[t]: "chat" or "search"
    args,       \* args[t]: the arguments of the call
    attempt,    \* attempt[t]: the loop variable of _retry_with_backoff
    lastError,  \* lastError[t]: e, the exception the attempt raised
    response,   \* response[t]: what _retry_with_backoff returned
    result,     \* result[t]: what the call returned or raised
    upstream,   \* upstream[t]: the upstream calls made so far and their outcomes
    sleeps,     \* sleeps[t]: the delays of the asyncio.sleep calls so far
    running,    \* the task that holds the event loop, or NoTask
    surface,    \* surface[t]: who awaits the call: "client", "http" or "ui"
    reply,      \* reply[t]: what the HTTP or UI handler answered
    handle,     \* handle[t]: the provider handle of the client that t calls
    uses,       \* uses[h]: the handler operations that used provider handle h
    fn,         \* the helper a helper-only specification has applied
    arg,        \* its argument
    ret         \* its return value

vars ==
    <<pc, op, args, attempt, lastError, response, result, upstream, sleeps, running,
      surface, reply, handle, uses, fn, arg, ret>>

helper == <<fn, arg, ret>>

provider == <<handle, uses>>

Tasks == {"t1"}

\* The provider handle of the first client constructed: the caller's own, or
\* the one of create_app.
AppHandle == 1

RECURSIVE SumSeq(_)
SumSeq(q) == IF q = <<>> THEN 0 ELSE Head(q) + SumSeq(Tail(q))
NoTask == "none"
Ops == {"chat", "search"}
NoError == Exc("", <<>>)

\* An upstream call: the keyword arguments sent, and what came of it.
Ok(r, kwargs) ==
    [kind |-> "ok", response |-> r, error |-> NoError, payload |-> kwargs]
Failed(e, kwargs) ==
    [kind |-> "error", response |-> NoneVal, error |-> e, payload |-> kwargs]

InitTasks(T) ==
    /\ pc = [t \in T |-> "idle"]
    /\ op = [t \in T |-> "chat"]
    /\ args = [t \in T |-> NoneVal]
    /\ attempt = [t \in T |-> 0]
    /\ lastError = [t \in T |-> NoError]
    /\ response = [t \in T |-> NoneVal]
    /\ result = [t \in T |-> Pending]
    /\ upstream = [t \in T |-> <<>>]
    /\ sleeps = [t \in T |-> <<>>]
    /\ running = NoTask
    /\ surface = [t \in T |-> "client"]
    /\ reply = [t \in T |-> NoReply]
    /\ handle = [t \in T |-> AppHandle]
    /\ uses = <<0>>

Init ==
    /\ InitTasks(Tasks)
    /\ fn = "none"
    /\ arg = NoneVal
    /\ ret = NoneVal

(***************************************************************************)
(* _retry_with_backoff                                                     *)
(***************************************************************************)
\* A policy that retries a rate limit whatever the attempt.
ShouldRetryWhateverAttempt(e, a) == IsRateLimitError(e)

\* line 76: retry this failure?
ShouldRetryAnyError(e, a) == a < MAX_RETRIES - 1
ShouldRetryOnce(e, a) == IsRateLimitError(e) /\ a < MAX_RETRIES - 2

ShouldRetry(e, a) == IsRateLimitError(e) /\ a < MAX_RETRIES - 1

\* line 77
BackoffDelayLinear(a) == RETRY_BASE_DELAY * 2 * a

BackoffDelay(a) == RETRY_BASE_DELAY * (2 ^ a)

\* A policy that wraps whatever error ends the loop.
RaisedErrorAlwaysWrapped(e) == RateLimitError(StrOf(e))

\* lines 80-82: the exception that leaves the loop.
RaisedError(e) ==
    IF IsRateLimitError(e) THEN RateLimitError(StrOf(e)) ELSE e

\* The number of operations the handlers have begun.
Requests == SumSeq(uses)

\* A UI handler that calls the client of the application.
ClientHandleAlwaysShared(s, held, n) ==
    CASE s \in {"ui", "http"} -> AppHandle
      [] OTHER -> held

\* The provider handle of the client that a call on surface s uses, held being
\* the handle of the client the caller holds and n the number of handles
\* made so far: a UI handler constructs a client, and with it a provider
\* handle, for the call (ui.py lines 18 and 52); an HTTP handler calls the
\* client that create_app constructed (api.py line 31).
ClientHandle(s, held, n) ==
    CASE s = "ui" -> n + 1
      [] s = "http" -> AppHandle
      [] OTHER -> held

\* uses, once an operation of a handler on surface s has taken handle h.
Used(s, h) ==
    IF s = "client" THEN uses
    ELSE IF h > Len(uses) THEN Append(uses, 1)
    ELSE [uses EXCEPT ![h] = @ + 1]

\* The caller that awaits the call is resumed in the turn of the event loop
\* in which the call ends, and answers.
Resume(t) ==
    reply' = [reply EXCEPT ![t] =
                IF pc'[t] = "done"
                THEN HandlerReply(surface[t], op[t], args[t], result'[t])
                ELSE @]

\* A call that goes on from the attempt index of the call before it.
CallKeepsCount(t, s, o, a) ==
    /\ pc[t] \in {"idle", "done", "rejected"}
    /\ running = NoTask
    /\ pc' = [pc EXCEPT ![t] = "attempt"]
    /\ op' = [op EXCEPT ![t] = o]
    /\ args' = [args EXCEPT ![t] = a]
    /\ attempt' = attempt
    /\ lastError' = [lastError EXCEPT ![t] = NoError]
    /\ response' = [response EXCEPT ![t] = NoneVal]
    /\ result' = [result EXCEPT ![t] = Pending]
    /\ upstream' = [upstream EXCEPT ![t] = <<>>]
    /\ sleeps' = [sleeps EXCEPT ![t] = <<>>]
    /\ running' = t
    /\ surface' = [surface EXCEPT ![t] = s]
    /\ reply' = [reply EXCEPT ![t] = NoReply]
    /\ s # "client" => Requests < MaxRequests
    /\ handle' = [handle EXCEPT ![t] = ClientHandle(s, @, Len(uses))]
    /\ uses' = Used(s, ClientHandle(s, handle[t], Len(uses)))
    /\ UNCHANGED helper

\* A caller awaits chat or search: the coroutine runs up to its first attempt.
Call(t, s, o, a) ==
    /\ pc[t] \in {"idle", "done", "rejected"}
    /\ running = NoTask
    /\ pc' = [pc EXCEPT ![t] = "attempt"]
    /\ op' = [op EXCEPT ![t] = o]
    /\ args' = [args EXCEPT ![t] = a]
    /\ attempt' = [attempt EXCEPT ![t] = 0]
    /\ lastError' = [lastError EXCEPT ![t] = NoError]
    /\ response' = [response EXCEPT ![t] = NoneVal]
    /\ result' = [result EXCEPT ![t] = Pending]
    /\ upstream' = [upstream EXCEPT ![t] = <<>>]
    /\ sleeps' = [sleeps EXCEPT ![t] = <<>>]
    /\ running' = t
    /\ surface' = [surface EXCEPT ![t] = s]
    /\ reply' = [reply EXCEPT ![t] = NoReply]
    /\ s # "client" => Requests < MaxRequests
    /\ handle' = [handle EXCEPT ![t] = ClientHandle(s, @, Len(uses))]
    /\ uses' = Used(s, ClientHandle(s, handle[t], Len(uses)))
    /\ UNCHANGED helper

\* A request is refused before the client is called: the task ends with the
\* answer r, and nothing is sent upstream.
Reject(t, s, o, q, r) ==
    /\ pc[t] \in {"idle", "done", "rejected"}
    /\ running = NoTask
    /\ pc' = [pc EXCEPT ![t] = "rejected"]
    /\ op' = [op EXCEPT ![t] = o]
    /\ args' = [args EXCEPT ![t] = q]
    /\ attempt' = [attempt EXCEPT ![t] = 0]
    /\ lastError' = [lastError EXCEPT ![t] = NoError]
    /\ response' = [response EXCEPT ![t] = NoneVal]
    /\ result' = [result EXCEPT ![t] = Pending]
    /\ upstream' = [upstream EXCEPT ![t] = <<>>]
    /\ sleeps' = [sleeps EXCEPT ![t] = <<>>]
    /\ surface' = [surface EXCEPT ![t] = s]
    /\ reply' = [reply EXCEPT ![t] = r]
    /\ UNCHANGED <<running, provider, helper>>

\* An HTTP request with body q arrives: the body is validated, and the
\* handler of a valid one awaits the client.
HttpRequest(t, o, q) ==
    IF o = "chat"
    THEN IF ChatQueryValid(q) THEN Call(t, "http", o, ChatQueryArgs(q))
         ELSE Reject(t, "http", o, q, RequestValidationError)
    ELSE IF SearchQueryValid(q) THEN Call(t, "http", o, SearchQueryArgs(q))
         ELSE Reject(t, "http", o, q, RequestValidationError)

\* A UI handler is run on the input q: it awaits the client if it is given a
\* text.
UiRequest(t, o, q) ==
    IF o = "chat"
    THEN IF UiTextGiven(q.message) THEN Call(t, "ui", o, UiChatArgs(q))
         ELSE Reject(t, "ui", o, q, GrError(EnterAMessage))
    ELSE IF UiTextGiven(q.query) THEN Call(t, "ui", o, UiSearchArgs(q))
         ELSE Reject(t, "ui", o, q, GrError(EnterASearchQuery))

\* line 74: func() returned r, and the loop returns it.
AttemptSucceededKeepsLooping(t, r) ==
    /\ pc[t] = "attempt"
    /\ running = t
    /\ upstream' = [upstream EXCEPT ![t] = Append(@, Ok(r, Kwargs(op[t], args[t])))]
    /\ response' = [response EXCEPT ![t] = r]
    /\ IF attempt[t] + 1 < MAX_RETRIES
       THEN /\ attempt' = [attempt EXCEPT ![t] = @ + 1]
            /\ pc' = pc
       ELSE /\ attempt' = attempt
            /\ pc' = [pc EXCEPT ![t] = "responded"]
    /\ UNCHANGED <<op, args, surface, reply, lastError, result, sleeps,
                   running, provider, helper>>

\* A retry that sends the payload without the recency filter.
AttemptSucceededBareRetry(t, r) ==
    /\ pc[t] = "attempt"
    /\ running = t
    /\ upstream' = [upstream EXCEPT ![t] = Append(@, Ok(r,
           Kwargs(op[t], IF attempt[t] = 0 THEN args[t]
                         ELSE [args[t] EXCEPT !.search_recency_filter = NoneVal])))]
    /\ response' = [response EXCEPT ![t] = r]
    /\ pc' = [pc EXCEPT ![t] = "responded"]
    /\ UNCHANGED <<op, args, surface, reply, attempt, lastError, result,
                   sleeps, running, provider, helper>>

AttemptSucceeded(t, r) ==
    /\ pc[t] = "attempt"
    /\ running = t
    /\ upstream' = [upstream EXCEPT ![t] = Append(@, Ok(r, Kwargs(op[t], args[t])))]
    /\ response' = [response EXCEPT ![t] = r]
    /\ pc' = [pc EXCEPT ![t] = "responded"]
    /\ UNCHANGED <<op, args, surface, reply, attempt, lastError, result,
                   sleeps, running, provider, helper>>

\* An upstream call that is awaited, so that the event loop is given up while
\* the provider answers.
AttemptFailedYields(t, e) ==
    /\ pc[t] = "attempt"
    /\ running = t
    /\ upstream' = [upstream EXCEPT ![t] = Append(@, Failed(e, Kwargs(op[t], args[t])))]
    /\ lastError' = [lastError EXCEPT ![t] = e]
    /\ pc' = [pc EXCEPT ![t] = "failed"]
    /\ running' = NoTask
    /\ UNCHANGED <<op, args, surface, reply, attempt, response, result,
                   sleeps, provider, helper>>

\* lines 74-75: func() raised e.
AttemptFailed(t, e) ==
    /\ pc[t] = "attempt"
    /\ running = t
    /\ upstream' = [upstream EXCEPT ![t] = Append(@, Failed(e, Kwargs(op[t], args[t])))]
    /\ lastError' = [lastError EXCEPT ![t] = e]
    /\ pc' = [pc EXCEPT ![t] = "failed"]
    /\ UNCHANGED <<op, args, surface, reply, attempt, response, result,
                   sleeps, running, provider, helper>>

\* One attempt: _make_request calls the provider, which answers or raises.
MakeRequest(t) ==
    \/ \E r \in Responses(op[t]) : AttemptSucceeded(t, r)
    \/ \E e \in UpstreamErrors : AttemptFailed(t, e)

\* The except clause of a policy that remembers an earlier rate limit and wraps
\* whatever failure ends the loop after one.
HandleFailureRemembersRateLimit(t) ==
    /\ pc[t] = "failed"
    /\ running = t
    /\ IF ShouldRetry(lastError[t], attempt[t])
       THEN /\ sleeps' = [sleeps EXCEPT ![t] = Append(@, BackoffDelay(attempt[t]))]
            /\ pc' = [pc EXCEPT ![t] = "sleeping"]
            /\ result' = result
       ELSE /\ result' = [result EXCEPT ![t] =
                            IF \E i \in 1..Len(upstream[t]) :
                                   IsRateLimitError(upstream[t][i].error)
                            THEN Raise(RateLimitError(StrOf(lastError[t])))
                            ELSE Raise(lastError[t])]
            /\ pc' = [pc EXCEPT ![t] = "done"]
            /\ sleeps' = sleeps
    /\ running' = NoTask
    /\ Resume(t)
    /\ UNCHANGED <<op, args, surface, attempt, lastError, response, upstream,
                   provider, helper>>

\* lines 75-82: the except clause.
HandleFailure(t) ==
    /\ pc[t] = "failed"
    /\ running = t
    /\ IF ShouldRetry(lastError[t], attempt[t])
       THEN /\ sleeps' = [sleeps EXCEPT ![t] = Append(@, BackoffDelay(attempt[t]))]
            /\ pc' = [pc EXCEPT ![t] = "sleeping"]
            /\ result' = result
       ELSE /\ result' = [result EXCEPT ![t] =
                            Raise(RaisedError(lastError[t]))]
            /\ pc' = [pc EXCEPT ![t] = "done"]
            /\ sleeps' = sleeps
    /\ running' = NoTask
    /\ Resume(t)
    /\ UNCHANGED <<op, args, surface, attempt, lastError, response, upstream,
                   provider, helper>>

\* A loop that, once the sleep is over, handles the failure again without a
\* new attempt.
WakeWithoutAttempt(t) ==
    /\ pc[t] = "sleeping"
    /\ running = NoTask
    /\ running' = t
    /\ IF attempt[t] + 1 < MAX_RETRIES
       THEN /\ attempt' = [attempt EXCEPT ![t] = @ + 1]
            /\ pc' = [pc EXCEPT ![t] = "failed"]
       ELSE /\ attempt' = attempt
            /\ pc' = [pc EXCEPT ![t] = "responded"]
    /\ UNCHANGED <<op, args, surface, reply, lastError, response, result,
                   upstream, sleeps, provider, helper>>

\* A loop whose counter is shared by the calls in flight.
WakeSharedCounter(t) ==
    /\ pc[t] = "sleeping"
    /\ running = NoTask
    /\ running' = t
    /\ IF attempt[t] + 1 < MAX_RETRIES
       THEN /\ attempt' = [u \in DOMAIN attempt |-> attempt[u] + 1]
            /\ pc' = [pc EXCEPT ![t] = "attempt"]
       ELSE /\ attempt' = attempt
            /\ pc' = [pc EXCEPT ![t] = "responded"]
    /\ UNCHANGED <<op, args, surface, reply, lastError, response, result,
                   upstream, sleeps, provider, helper>>

\* line 79: the sleep is over; `continue` takes the loop to its next attempt,
\* and a loop that has run out of attempts ends, so that the function returns
\* None.
Wake(t) ==
    /\ pc[t] = "sleeping"
    /\ running = NoTask
    /\ running' = t
    /\ IF attempt[t] + 1 < MAX_RETRIES
       THEN /\ attempt' = [attempt EXCEPT ![t] = @ + 1]
            /\ pc' = [pc EXCEPT ![t] = "attempt"]
       ELSE /\ attempt' = attempt
            /\ pc' = [pc EXCEPT ![t] = "responded"]
    /\ UNCHANGED <<op, args, surface, reply, lastError, response, result,
                   upstream, sleeps, provider, helper>>

\* None has no attribute choices or results.
AttributeError == Exc("AttributeError", <<"N","o","n","e","T","y","p","e">>)

\* chat, lines 153-180.
ChatFinish(t) ==
    /\ pc[t] = "responded"
    /\ op[t] = "chat"
    /\ running = t
    /\ result' = [result EXCEPT ![t] =
                    IF response[t].kind = "None" THEN Raise(AttributeError)
                    ELSE ChatOutcome(response[t].val)]
    /\ pc' = [pc EXCEPT ![t] = "done"]
    /\ running' = NoTask
    /\ Resume(t)
    /\ UNCHANGED <<op, args, surface, attempt, lastError, response, upstream,
                   sleeps, provider, helper>>

\* search, lines 229-237.
SearchFinish(t) ==
    /\ pc[t] = "responded"
    /\ op[t] = "search"
    /\ running = t
    /\ result' = [result EXCEPT ![t] =
                    IF response[t].kind = "None" THEN Raise(AttributeError)
                    ELSE SearchOutcome(response[t].val)]
    /\ pc' = [pc EXCEPT ![t] = "done"]
    /\ running' = NoTask
    /\ Resume(t)
    /\ UNCHANGED <<op, args, surface, attempt, lastError, response, upstream,
                   sleeps, provider, helper>>

Next ==
    \E t \in Tasks :
        \/ \E o \in Ops : \E a \in CallArgs(o) : Call(t, "client", o, a)
        \/ MakeRequest(t)
        \/ HandleFailure(t)
        \/ Wake(t)
        \/ ChatFinish(t)
        \/ SearchFinish(t)

Spec == Init /\ [][Next]_vars

(***************************************************************************)
(* The server: requests of the HTTP surface and of the UI surface, each    *)
(* handled by a task of its own on one event loop.                         *)
(***************************************************************************)
ServerTasks == {"t1", "t2"}

ServerRow ==
    DictRow([title |-> TitlePython, snippet |-> Str(SnippetText(LongSnippet)),
             url |-> UrlExample])

ServerResponses(o) ==
    IF o = "chat"
    THEN { ChatResponseBare(List(<<ChoiceStop>>)),
           ChatResponseBare(List(<<>>)),
           ChatResponseWith(List(<<ChoiceStop>>), List(<<ServerRow>>)) }
    ELSE { Obj([results |-> List(<<>>)]),
           Obj([results |-> List(<<ServerRow>>)]) }

ServerErrors == { Exc("Exception", Msg429), Exc("TimeoutError", MsgTimeout) }

\* The requests of the server: a valid body of each endpoint, and a text for
\* each UI handler.
ServerBodies(o) == IF o = "chat" THEN {ChatDefaults} ELSE {SearchDefaults}

ServerInputs(o) ==
    IF o = "chat"
    THEN { [message |-> Str(<<"H","i">>), model |-> StrSonar,
            temperature |-> Float(2), search_mode |-> StrWeb] }
    ELSE { [query |-> StrQuery, max_results |-> IntVal(5),
            recency_filter |-> StrNone] }

InitServer ==
    /\ InitTasks(ServerTasks)
    /\ fn = "none"
    /\ arg = NoneVal
    /\ ret = NoneVal

\* A request arrives, and its handler awaits the client.
Request(t) ==
    \E o \in Ops :
        \/ \E q \in ServerBodies(o) : HttpRequest(t, o, q)
        \/ \E q \in ServerInputs(o) : UiRequest(t, o, q)

ServerMakeRequest(t) ==
    \/ \E r \in ServerResponses(op[t]) : AttemptSucceeded(t, r)
    \/ \E e \in ServerErrors : AttemptFailed(t, e)

NextServer ==
    \E t \in ServerTasks :
        \/ Request(t)
        \/ ServerMakeRequest(t)
        \/ HandleFailure(t)
        \/ Wake(t)
        \/ ChatFinish(t)
        \/ SearchFinish(t)

SpecServer == InitServer /\ [][NextServer]_vars

(***************************************************************************)
(* The requests of one task: bodies and inputs that are valid, at the      *)
(* limits of what is valid, and not valid.                                 *)
(***************************************************************************)
StrPadded == Str(<<" ","p","y","t","h","o","n"," ">>)
StrBlank == Str(<<" ">>)

\* The bodies of the HTTP requests.
HttpRequests(o) ==
    IF o = "chat"
    THEN { ChatDefaults,
           [ChatDefaults EXCEPT !.max_tokens = IntVal(0)],
           [ChatDefaults EXCEPT !.temperature = Float(21)] }
    ELSE { SearchDefaults,
           [SearchDefaults EXCEPT !.query = StrPadded,
                                  !.max_results = IntVal(50),
                                  !.max_tokens_per_page = IntVal(256)],
           [SearchDefaults EXCEPT !.max_results = IntVal(0)],
           [SearchDefaults EXCEPT !.max_results = IntVal(51)],
           [SearchDefaults EXCEPT !.max_tokens_per_page = IntVal(255)],
           [SearchDefaults EXCEPT !.max_tokens_per_page = IntVal(4097)],
           [SearchDefaults EXCEPT !.query = EmptyStr],
           [SearchDefaults EXCEPT !.query = StrBlank] }

\* The inputs of the UI handlers.
UiRequests(o) ==
    IF o = "chat"
    THEN { [message |-> m, model |-> StrSonar, temperature |-> Float(2),
            search_mode |-> StrWeb] : m \in {Str(<<"H","i">>), StrBlank} }
    ELSE { [query |-> StrQuery, max_results |-> IntVal(5),
            recency_filter |-> StrNone],
           [query |-> StrQuery, max_results |-> IntVal(100),
            recency_filter |-> StrMonth],
           [query |-> EmptyStr, max_results |-> IntVal(5),
            recency_filter |-> StrNone] }

InitRequests ==
    /\ InitTasks(Tasks)
    /\ fn = "none"
    /\ arg = NoneVal
    /\ ret = NoneVal

AnyHttpRequest(t) == \E o \in Ops : \E q \in HttpRequests(o) : HttpRequest(t, o, q)

AnyUiRequest(t) == \E o \in Ops : \E q \in UiRequests(o) : UiRequest(t, o, q)

NextRequests ==
    \E t \in Tasks :
        \/ AnyHttpRequest(t)
        \/ AnyUiRequest(t)
        \/ ServerMakeRequest(t)
        \/ HandleFailure(t)
        \/ Wake(t)
        \/ ChatFinish(t)
        \/ SearchFinish(t)

SpecRequests == InitRequests /\ [][NextRequests]_vars

\* The same, where a step that can be taken is taken in the end: the
\* provider answers or fails (line 74), the event loop goes on with a
\* coroutine that is not suspended (lines 75-82, 153-180, 229-237), and a
\* sleep comes to its end (line 78).
SpecRequestsFair ==
    /\ SpecRequests
    /\ \A t \in Tasks :
          /\ WF_vars(ServerMakeRequest(t))
          /\ WF_vars(HandleFailure(t))
          /\ WF_vars(Wake(t))
          /\ WF_vars(ChatFinish(t))
          /\ WF_vars(SearchFinish(t))


(***************************************************************************)
(* The classifier on its own: an error is drawn, and classified.           *)
(***************************************************************************)
Fragments ==
    { <<"4","2","9">>, <<"4","2">>, <<"9">>, <<"4"," ","2","9">>,
      <<"r","a","t","e"," ","l","i","m","i","t">>,
      <<"R","a","t","e"," ","L","i","m","i","t">>,
      <<"R","A","T","E"," ","L","I","M","I","T">>,
      <<"r","a","t","e">>, <<" ">>, <<"l","i","m","i","t">>, <<"L","i","m","i","t">>,
      <<"r","a","t","e","-","l","i","m","i","t">>,
      <<"F","o","u","n","d"," ","4","2","9"," ","i","t","e","m","s">>,
      <<"C","o","n","n","e","c","t","i","o","n"," ","t","i","m","e","o","u","t">> }

RECURSIVE Texts(_)
\* The texts put together from at most n fragments.
Texts(n) ==
    IF n = 0 THEN { <<>> }
    ELSE Texts(n - 1) \cup { a \o f : a \in Texts(n - 1), f \in Fragments }

ClassifierInputs ==
    { ExcWithStatus("APIStatusError", m, c) :
        m \in Texts(MaxParts), c \in {NoneVal, IntVal(429), IntVal(500)} }

InitClassifier ==
    /\ InitTasks(Tasks)
    /\ fn = "none"
    /\ arg \in ClassifierInputs
    /\ ret = NoneVal

ApplyIsRateLimitError ==
    /\ fn = "none"
    /\ fn' = "_is_rate_limit_error"
    /\ ret' = Bool(IsRateLimitError(arg))
    /\ UNCHANGED <<pc, op, args, surface, reply, attempt, lastError, response,
                   result, upstream, sleeps, running, provider, arg>>

NextClassifier == ApplyIsRateLimitError

SpecClassifier == InitClassifier /\ [][NextClassifier]_vars


(***************************************************************************)
(* The normalizer on its own: the same fields are given as a dict and as   *)
(* an object, and each is made a SearchResult, as chat and as search do.   *)
(***************************************************************************)
RowKeys == {"title", "snippet", "url", "published_date"}

FieldValues ==
    { NoneVal, EmptyStr, TitlePython, Str(SnippetText(SnippetLimit + 1)) }

\* The fields a row can have: any of the keys, each with any of the values.
FieldMappings == UNION { [K -> FieldValues] : K \in SUBSET RowKeys }

InitNormalize ==
    /\ InitTasks(Tasks)
    /\ fn = "none"
    /\ \E m \in FieldMappings : arg = <<DictRow(m), ObjectRow(m)>>
    /\ ret = NoneVal

ApplyChatRow ==
    /\ fn = "none"
    /\ fn' = "chat"
    /\ ret' = <<ChatRow(arg[1]), ChatRow(arg[2])>>
    /\ UNCHANGED <<pc, op, args, surface, reply, attempt, lastError, response,
                   result, upstream, sleeps, running, provider, arg>>

ApplySearchRow ==
    /\ fn = "none"
    /\ fn' = "search"
    /\ ret' = <<SearchRow(arg[1]), SearchRow(arg[2])>>
    /\ UNCHANGED <<pc, op, args, surface, reply, attempt, lastError, response,
                   result, upstream, sleeps, running, provider, arg>>

NextNormalize == ApplyChatRow \/ ApplySearchRow

SpecNormalize == InitNormalize /\ [][NextNormalize]_vars

(***************************************************************************)
(* _get_search_result_value on its own: called with a row and a key, and    *)
(* with or without a default.  A row is a dict (which, as an instance of a  *)
(* dict subclass, may carry attributes too) or an object with attributes.   *)
(***************************************************************************)
LookupKeys == {"title", "url"}

LookupValues == { NoneVal, TitlePython }

LookupMappings == UNION { [K -> LookupValues] : K \in SUBSET LookupKeys }

LookupRows ==
    { [isdict |-> TRUE, items |-> m, attrs |-> n] :
          m \in LookupMappings, n \in LookupMappings }
    \cup { ObjectRow(n) : n \in LookupMappings }

StrDefault == Str(<<"d","e","f","a","u","l","t">>)

\* The positional arguments of a call: the default may be left out.
LookupCalls ==
    { <<r, k>> : r \in LookupRows, k \in LookupKeys }
    \cup { <<r, k, d>> : r \in LookupRows, k \in LookupKeys,
                         d \in {EmptyStr, StrDefault} }

\* The call binds default to None when it is not given (line 49).
GetSearchResultValueCall(a) ==
    GetSearchResultValue(a[1], a[2], IF Len(a) >= 3 THEN a[3] ELSE NoneVal)

InitLookup ==
    /\ InitTasks(Tasks)
    /\ fn = "none"
    /\ arg \in LookupCalls
    /\ ret = NoneVal

ApplyGetSearchResultValue ==
    /\ fn = "none"
    /\ fn' = "_get_search_result_value"
    /\ ret' = GetSearchResultValueCall(arg)
    /\ UNCHANGED <<pc, op, args, surface, reply, attempt, lastError, response,
                   result, upstream, sleeps, running, provider, arg>>

NextLookup == ApplyGetSearchResultValue

SpecLookup == InitLookup /\ [][NextLookup]_vars

(***************************************************************************)
(* The chat endpoint on its own: _chat of api.py on what the awaited       *)
(* client.chat gave it.  That is an outcome of AuroraClient.chat, or, from *)
(* a client that is not AuroraClient (the tests patch it), a ChatResult    *)
(* whose search_results is an empty list.                                  *)
(***************************************************************************)
ChatEndpointResults ==
    LET outcomes == { ChatOutcome(r.val) : r \in ChatResponses }
    IN  outcomes
        \cup { Return([o.value EXCEPT !.search_results = List(<<>>)]) :
                   o \in { x \in outcomes : x.kind = "return" } }

InitChatEndpoint ==
    /\ InitTasks(Tasks)
    /\ fn = "none"
    /\ arg \in ChatEndpointResults
    /\ ret = NoneVal

ApplyChatEndpoint ==
    /\ fn = "none"
    /\ fn' = "_chat"
    /\ ret' = ApiReply("chat", ChatDefaults, arg)
    /\ UNCHANGED <<pc, op, args, surface, reply, attempt, lastError, response,
                   result, upstream, sleeps, running, provider, arg>>

NextChatEndpoint == ApplyChatEndpoint

SpecChatEndpoint == InitChatEndpoint /\ [][NextChatEndpoint]_vars

(***************************************************************************)
(* The request builders on their own: _make_request of chat and of search  *)
(* applied to the arguments of one call.                                   *)
(***************************************************************************)
InitPayload ==
    /\ InitTasks(Tasks)
    /\ fn = "none"
    /\ \/ \E a \in ChatArgSets : arg = [op |-> "chat", args |-> a]
       \/ \E a \in SearchArgSets : arg = [op |-> "search", args |-> a]
    /\ ret = NoneVal

ApplyChatMakeRequest ==
    /\ fn = "none"
    /\ arg.op = "chat"
    /\ fn' = "chat._make_request"
    /\ ret' = ChatKwargs(arg.args)
    /\ UNCHANGED <<pc, op, args, surface, reply, attempt, lastError, response,
                   result, upstream, sleeps, running, provider, arg>>

ApplySearchMakeRequest ==
    /\ fn = "none"
    /\ arg.op = "search"
    /\ fn' = "search._make_request"
    /\ ret' = SearchKwargs(arg.args)
    /\ UNCHANGED <<pc, op, args, surface, reply, attempt, lastError, response,
                   result, upstream, sleeps, running, provider, arg>>

NextPayload == ApplyChatMakeRequest \/ ApplySearchMakeRequest

SpecPayload == InitPayload /\ [][NextPayload]_vars

(***************************************************************************)
(* Properties.                                                             *)
(***************************************************************************)
\* Attempt i of task t failed with an error classified as rate limiting.
RateLimited(t, i) ==
    upstream[t][i].kind = "error" /\ IsRateLimitError(upstream[t][i].error)

\* Attempt i of task t failed with an error not classified as rate limiting.
OtherFailure(t, i) ==
    upstream[t][i].kind = "error" /\ ~IsRateLimitError(upstream[t][i].error)


\* C1: a call of chat or of search all of whose attempts failed with a
\* rate-limit-classified error has invoked the operation exactly 3 times and
\* ends in RateLimitError with the message of the third failure.
C1_ExhaustedRetriesRaiseRateLimitError ==
    \A t \in Tasks :
        (pc[t] = "done" /\ \A i \in 1..Len(upstream[t]) : RateLimited(t, i))
        => /\ Len(upstream[t]) = 3
           /\ result[t].kind = "raise"
           /\ result[t].error.type = "RateLimitError"
           /\ result[t].error.msg = upstream[t][3].error.msg

C1_Witness ==
    \E t \in Tasks :
        /\ pc[t] = "done"
        /\ op[t] = "chat"
        /\ Len(upstream[t]) = 3
        /\ \A i \in 1..3 : RateLimited(t, i)
        /\ upstream[t][3].error.msg # upstream[t][1].error.msg
        /\ upstream[t][3].error.msg # upstream[t][2].error.msg
        /\ result[t] = Raise(RateLimitError(upstream[t][3].error.msg))

\* C2: when the first k attempts (k in 0..2) failed with rate-limit-classified
\* errors and attempt k+1 succeeded, the operation was invoked exactly k+1
\* times, the retry policy has returned that attempt's value, nothing was
\* invoked and no sleep was made after the success, and the call does not end
\* in RateLimitError.
C2_SuccessIsReturnedAtOnce ==
    \A t \in Tasks :
        \A i \in 1..Len(upstream[t]) :
            (upstream[t][i].kind = "ok" /\ \A j \in 1..(i - 1) : RateLimited(t, j))
            => /\ i <= 3
               /\ Len(upstream[t]) = i
               /\ pc[t] \in {"responded", "done"}
               /\ response[t] = upstream[t][i].response
               /\ Len(sleeps[t]) = i - 1
               /\ (pc[t] = "done" /\ result[t].kind = "raise"
                      => result[t].error.type # "RateLimitError")

C2_Witness ==
    \E t \in Tasks :
        /\ pc[t] = "done"
        /\ op[t] = "search"
        /\ Len(upstream[t]) = 3
        /\ RateLimited(t, 1)
        /\ RateLimited(t, 2)
        /\ upstream[t][3].kind = "ok"
        /\ result[t].kind = "return"
        /\ Len(sleeps[t]) = 2

\* C3: when the first failure is not classified as rate limiting, the operation
\* is invoked exactly once, nothing is slept, and the call ends with that very
\* error, not with a RateLimitError made from it.
C3_OtherFirstFailurePropagates ==
    \A t \in Tasks :
        (Len(upstream[t]) >= 1 /\ OtherFailure(t, 1))
        => /\ Len(upstream[t]) = 1
           /\ sleeps[t] = <<>>
           /\ pc[t] \in {"failed", "done"}
           /\ (pc[t] = "done" => result[t] = Raise(upstream[t][1].error))

C3_Witness ==
    \E t \in Tasks :
        /\ pc[t] = "done"
        /\ Len(upstream[t]) = 1
        /\ OtherFailure(t, 1)
        /\ result[t] = Raise(upstream[t][1].error)
        /\ result[t].error.type # "RateLimitError"

\* C4: a failure of the second or third attempt that is not classified as rate
\* limiting, after rate-limit failures that were retried, ends the call with
\* that very error, unwrapped, and no attempt follows it.
C4_LaterOtherFailurePropagatesUnwrapped ==
    \A t \in Tasks :
        \A i \in 2..Len(upstream[t]) :
            (OtherFailure(t, i) /\ \A j \in 1..(i - 1) : RateLimited(t, j))
            => /\ Len(upstream[t]) = i
               /\ Len(sleeps[t]) = i - 1
               /\ pc[t] \in {"failed", "done"}
               /\ (pc[t] = "done" => result[t] = Raise(upstream[t][i].error))

C4_Witness ==
    \E t \in Tasks :
        /\ pc[t] = "done"
        /\ Len(upstream[t]) = 2
        /\ RateLimited(t, 1)
        /\ OtherFailure(t, 2)
        /\ attempt[t] < MAX_RETRIES - 1
        /\ result[t] = Raise(upstream[t][2].error)
        /\ result[t].error.type # "RateLimitError"

\* C5: the sleeps of a call are 1 then 2 time units, one after each
\* rate-limit failure of a first or second attempt; a call that used all 3
\* attempts slept 3 units in all, and nothing is slept after the last attempt.
C5_BackoffDelaysAreOneThenTwo ==
    \A t \in Tasks :
        /\ sleeps[t] \in { <<>>, <<1>>, <<1, 2>> }
        /\ \A i \in 1..Len(sleeps[t]) : i <= Len(upstream[t]) /\ RateLimited(t, i)
        /\ pc[t] \in {"responded", "done"} => Len(sleeps[t]) = Len(upstream[t]) - 1
        /\ (pc[t] = "done" /\ Len(upstream[t]) = 3)
              => sleeps[t] = <<1, 2>> /\ SumSeq(sleeps[t]) = 3

C5_Witness ==
    \E t \in Tasks :
        /\ pc[t] = "done"
        /\ Len(upstream[t]) = 3
        /\ \A i \in 1..3 : RateLimited(t, i)
        /\ sleeps[t] = <<1, 2>>
        /\ SumSeq(sleeps[t]) = 3

\* The text s has the three characters 429 in a row.
Mentions429(s) ==
    \E i \in 1..(Len(s) - 2) : s[i] = "4" /\ s[i + 1] = "2" /\ s[i + 2] = "9"

\* The characters c and d are the same letter, in whatever case.
SameLetter(c, d) ==
    \/ c = d
    \/ \E k \in 1..Len(UpperCase) : {c, d} = {UpperCase[k], LowerCase[k]}

\* The text s has "rate limit" in it, in whatever case.
MentionsRateLimit(s) ==
    \E i \in 0..(Len(s) - Len(LitRateLimit)) :
        \A j \in 1..Len(LitRateLimit) : SameLetter(s[i + j], LitRateLimit[j])

\* C6: _is_rate_limit_error is true exactly of the errors whose message has
\* "429" in it or, in whatever case, "rate limit", whatever status code the
\* error carries.
C6_ClassifierIsTextual ==
    fn = "_is_rate_limit_error"
    => (ret.val <=> (Mentions429(arg.msg) \/ MentionsRateLimit(arg.msg)))

C6_Witness ==
    /\ fn = "_is_rate_limit_error"
    /\ ret.val = TRUE
    /\ ~Mentions429(arg.msg)
    /\ arg.msg # Lower(arg.msg)
    /\ arg.status_code = IntVal(500)

\* C7: a chat response with an empty choices sequence ends the call with
\* ValueError "Response has no choices", which is no RateLimitError, and no
\* upstream call is made after the one that returned it.
C7_NoChoicesIsNotRetried ==
    \A t \in Tasks :
        \A i \in 1..Len(upstream[t]) :
            (/\ op[t] = "chat"
             /\ upstream[t][i].kind = "ok"
             /\ upstream[t][i].response.val.choices = List(<<>>))
            => /\ Len(upstream[t]) = i
               /\ (pc[t] = "done"
                     => /\ result[t].kind = "raise"
                        /\ result[t].error.type = "ValueError"
                        /\ result[t].error.type # "RateLimitError"
                        /\ result[t].error.msg =
                              <<"R","e","s","p","o","n","s","e"," ","h","a","s"," ",
                                "n","o"," ","c","h","o","i","c","e","s">>)

C7_Witness ==
    \E t \in Tasks :
        /\ pc[t] = "done"
        /\ op[t] = "chat"
        /\ Len(upstream[t]) = 1
        /\ upstream[t][1].kind = "ok"
        /\ upstream[t][1].response.val.choices = List(<<>>)
        /\ result[t].kind = "raise"
        /\ result[t].error.type = "ValueError"

\* The search_results the upstream gave with the chat response r: none when
\* the attribute is missing or None.
UpstreamSearchResults(r) ==
    IF "search_results" \in DOMAIN r /\ r.search_results.kind = "list"
    THEN r.search_results.val ELSE <<>>

\* C8: the search_results of a ChatResult is None or a sequence of at least
\* one element: None when the upstream's is missing, None or empty, and else
\* a sequence as long as the upstream's.
C8_ChatSearchResultsNeverEmpty ==
    \A t \in Tasks :
        (pc[t] = "done" /\ op[t] = "chat" /\ result[t].kind = "return")
        => LET sr == result[t].value.search_results
               up == UpstreamSearchResults(response[t].val)
           IN  /\ sr.kind \in {"None", "list"}
               /\ sr.kind = "list" => Len(sr.val) >= 1
               /\ up = <<>> => sr = NoneVal
               /\ up # <<>> => sr.kind = "list" /\ Len(sr.val) = Len(up)

C8_Witness ==
    \E t \in Tasks :
        /\ pc[t] = "done"
        /\ op[t] = "chat"
        /\ result[t].kind = "return"
        /\ "search_results" \in DOMAIN response[t].val
        /\ response[t].val.search_results = List(<<>>)
        /\ result[t].value.search_results = NoneVal

\* C9: a search whose upstream response has no rows returns the empty
\* sequence: it does not return None and does not fail.
C9_SearchReturnsEmptySequence ==
    \A t \in Tasks :
        (/\ pc[t] = "done"
         /\ op[t] = "search"
         /\ upstream[t][Len(upstream[t])].kind = "ok"
         /\ upstream[t][Len(upstream[t])].response.val.results = List(<<>>))
        => result[t] = Return(List(<<>>))

C9_Witness ==
    \E t \in Tasks :
        /\ pc[t] = "done"
        /\ op[t] = "search"
        /\ response[t].val.results = List(<<>>)
        /\ result[t].kind = "return"
        /\ result[t].value = List(<<>>)

\* The snippet of the upstream row r: the empty text when it has none or None.
RowSnippet(r) ==
    LET m == IF r.isdict THEN r.items ELSE r.attrs
    IN  IF "snippet" \in DOMAIN m /\ m.snippet.kind = "str"
        THEN m.snippet.val ELSE <<>>

\* The first characters of s, at most n of them.
FirstChars(s, n) == [i \in 1..(IF Len(s) < n THEN Len(s) ELSE n) |-> s[i]]

\* The rows out[i] are the rows raw[i] with the snippet cut to 500 characters.
SnippetsCut(raw, out) ==
    /\ Len(out) = Len(raw)
    /\ \A i \in 1..Len(raw) :
          /\ out[i].snippet = Str(FirstChars(RowSnippet(raw[i]), 500))
          /\ Len(out[i].snippet.val) <= 500

\* C10: in what chat and search return, the snippet of every row is the first
\* min(len, 500) characters of the upstream row's snippet, and the empty
\* string for a row without snippet; none is longer than 500.
C10_SnippetIsCutTo500 ==
    \A t \in Tasks :
        (pc[t] = "done" /\ result[t].kind = "return")
        => IF op[t] = "search"
           THEN SnippetsCut(response[t].val.results.val, result[t].value.val)
           ELSE result[t].value.search_results.kind = "list"
                => SnippetsCut(response[t].val.search_results.val,
                               result[t].value.search_results.val)

C10_Witness ==
    \E t \in Tasks :
        /\ pc[t] = "done"
        /\ op[t] = "chat"
        /\ result[t].kind = "return"
        /\ result[t].value.search_results.kind = "list"
        /\ \E i \in 1..Len(response[t].val.search_results.val) :
              /\ Len(RowSnippet(response[t].val.search_results.val[i])) = 600
              /\ Len(result[t].value.search_results.val[i].snippet.val) = 500
        /\ \E i \in 1..Len(response[t].val.search_results.val) :
              /\ RowSnippet(response[t].val.search_results.val[i]) = <<>>
              /\ result[t].value.search_results.val[i].snippet = Str(<<>>)


\* The value the upstream row r has for the field key: None when it has none.
RowField(r, key) ==
    LET m == IF r.isdict THEN r.items ELSE r.attrs
    IN  IF key \in DOMAIN m THEN m[key] ELSE NoneVal

\* The upstream rows a finished call of task t has normalized, and the
\* SearchResults it made of them.
RawRows(t) ==
    IF op[t] = "search" THEN response[t].val.results.val
    ELSE IF result[t].value.search_results.kind = "list"
         THEN response[t].val.search_results.val ELSE <<>>

OutRows(t) ==
    IF op[t] = "search" THEN result[t].value.val
    ELSE IF result[t].value.search_results.kind = "list"
         THEN result[t].value.search_results.val ELSE <<>>

\* C11: in what chat and search return, the title of every row is a string,
\* never None: the upstream row's title when that is a non-empty string, and
\* the empty string when the row has no title or its title is None.
C11_TitleIsNeverNull ==
    \A t \in Tasks :
        (pc[t] = "done" /\ result[t].kind = "return")
        => /\ Len(OutRows(t)) = Len(RawRows(t))
           /\ \A i \in 1..Len(RawRows(t)) :
                 LET raw == RowField(RawRows(t)[i], "title")
                     out == OutRows(t)[i].title
                 IN  /\ out.kind = "str"
                     /\ (raw.kind = "str" /\ raw.val # <<>>) => out = raw
                     /\ raw.kind = "None" => out = Str(<<>>)

C11_Witness ==
    \E t \in Tasks :
        /\ pc[t] = "done"
        /\ op[t] = "search"
        /\ result[t].kind = "return"
        /\ Len(RawRows(t)) = 2
        /\ RawRows(t)[1].isdict
        /\ "title" \notin DOMAIN RawRows(t)[1].items
        /\ OutRows(t)[1].title = Str(<<>>)
        /\ ~RawRows(t)[2].isdict
        /\ "title" \in DOMAIN RawRows(t)[2].attrs
        /\ RawRows(t)[2].attrs.title = NoneVal
        /\ OutRows(t)[2].title = Str(<<>>)

\* C12: in what chat and search return, url and published_date of every row
\* are the upstream row's values as they are, and None when the row has none:
\* no default is put in their place and nothing is cut.
C12_UrlAndDateAreCopied ==
    \A t \in Tasks :
        (pc[t] = "done" /\ result[t].kind = "return")
        => /\ Len(OutRows(t)) = Len(RawRows(t))
           /\ \A i \in 1..Len(RawRows(t)) :
                 /\ OutRows(t)[i].url = RowField(RawRows(t)[i], "url")
                 /\ OutRows(t)[i].published_date =
                       RowField(RawRows(t)[i], "published_date")

C12_Witness ==
    \E t \in Tasks :
        /\ pc[t] = "done"
        /\ op[t] = "chat"
        /\ result[t].kind = "return"
        /\ Len(RawRows(t)) = 2
        /\ "url" \notin DOMAIN RawRows(t)[1].items
        /\ RawRows(t)[1].isdict
        /\ OutRows(t)[1].url = NoneVal
        /\ OutRows(t)[1].published_date = NoneVal
        /\ RowField(RawRows(t)[2], "url") = Str(<<>>)
        /\ OutRows(t)[2].url = Str(<<>>)
        /\ OutRows(t)[2].published_date.kind = "str"


\* C13: a row given as a mapping and a row given as an object with the same
\* values for the same fields, and the same fields absent, are normalized to
\* equal SearchResults, by chat and by search.
C13_DictAndObjectRowsNormalizeAlike ==
    (/\ fn \in {"chat", "search"}
     /\ arg[1].isdict
     /\ ~arg[2].isdict
     /\ arg[1].items = arg[2].attrs)
    => ret[1] = ret[2]

C13_Witness ==
    /\ fn = "search"
    /\ arg[1].isdict
    /\ ~arg[2].isdict
    /\ arg[1].items = arg[2].attrs
    /\ DOMAIN arg[1].items = {"snippet", "url"}
    /\ Len(arg[1].items.snippet.val) > 500
    /\ arg[1].items.url.kind = "str"
    /\ ret[1] = ret[2]
    /\ ret[1].title = Str(<<>>)
    /\ Len(ret[2].snippet.val) = 500
    /\ ret[2].url = arg[2].attrs.url
    /\ ret[2].published_date = NoneVal

\* The value v was given and is neither zero nor empty.
GivenNonEmpty(v) == v \notin {NoneVal, IntVal(0), EmptyStr, List(<<>>)}

ChatAlwaysSent ==
    {"model", "messages", "temperature", "top_p", "top_k",
     "frequency_penalty", "presence_penalty", "search_mode", "disable_search"}

ChatOptional == {"max_tokens", "search_recency_filter", "reasoning_effort"}

\* C14: the chat payload always carries model, messages, temperature, top_p,
\* top_k, frequency_penalty, presence_penalty, search_mode and
\* disable_search, whatever their values; it carries max_tokens, the recency
\* filter and the reasoning effort exactly when they were given a non-zero,
\* non-empty value; every value sent is the caller's.
C14_ChatPayloadFields ==
    fn = "chat._make_request" =>
        /\ DOMAIN ret = ChatAlwaysSent
                \cup {k \in ChatOptional : GivenNonEmpty(arg.args[k])}
        /\ \A k \in DOMAIN ret : ret[k] = arg.args[k]

C14_Witness ==
    /\ fn = "chat._make_request"
    /\ arg.args.max_tokens = IntVal(0)
    /\ arg.args.search_recency_filter = EmptyStr
    /\ arg.args.reasoning_effort = StrHigh
    /\ arg.args.temperature = Float(0)
    /\ arg.args.disable_search = Bool(FALSE)
    /\ DOMAIN ret = ChatAlwaysSent \cup {"reasoning_effort"}
    /\ ret["temperature"] = Float(0)
    /\ ret["top_k"] = arg.args.top_k
    /\ ret["reasoning_effort"] = StrHigh

SearchAlwaysSent == {"query", "max_results", "max_tokens_per_page"}

SearchOptional ==
    {"search_recency_filter", "search_domain_filter",
     "search_language_filter", "country"}

\* C15: the search payload always carries query, max_results and
\* max_tokens_per_page; it carries the recency filter, the domain filter,
\* the language filter and the country exactly when they were given and are
\* not empty; every value sent is the caller's.
C15_SearchPayloadFields ==
    fn = "search._make_request" =>
        /\ DOMAIN ret = SearchAlwaysSent
                \cup {k \in SearchOptional : GivenNonEmpty(arg.args[k])}
        /\ \A k \in DOMAIN ret : ret[k] = arg.args[k]

C15_Witness ==
    /\ fn = "search._make_request"
    /\ arg.args.search_domain_filter = List(<<>>)
    /\ arg.args.search_language_filter = List(<<StrUS>>)
    /\ arg.args.country = EmptyStr
    /\ arg.args.search_recency_filter = NoneVal
    /\ arg.args.max_results = IntVal(0)
    /\ DOMAIN ret = SearchAlwaysSent \cup {"search_language_filter"}
    /\ ret["max_results"] = IntVal(0)
    /\ ret["search_language_filter"] = List(<<StrUS>>)

\* C16: every attempt of a call makes exactly one upstream call (a call in
\* its (n+1)th attempt has made n upstream calls before the attempt's call
\* and n+1 after it), and a call that is over has made at least 1 and at
\* most 3 upstream calls, whatever the upstream answered.
C16_OneUpstreamCallPerAttempt ==
    \A t \in Tasks :
        /\ pc[t] = "attempt" => Len(upstream[t]) = attempt[t]
        /\ pc[t] \in {"failed", "sleeping", "responded", "done"}
               => Len(upstream[t]) = attempt[t] + 1
        /\ pc[t] # "idle" => attempt[t] \in 0..2
        /\ pc[t] = "done" => Len(upstream[t]) \in 1..3

C16_Witness ==
    \E t \in Tasks :
        /\ pc[t] = "done"
        /\ Len(upstream[t]) = 3
        /\ upstream[t][1].kind = "error"
        /\ upstream[t][2].kind = "error"
        /\ upstream[t][3].kind = "ok"
        /\ result[t].kind = "return"

\* The call of task t is over and raised RateLimitError.
EndedRateLimited(t) ==
    /\ pc[t] = "done"
    /\ result[t].kind = "raise"
    /\ result[t].error.type = "RateLimitError"

\* The call of task t is over and raised another exception.
EndedOtherFailure(t) ==
    /\ pc[t] = "done"
    /\ result[t].kind = "raise"
    /\ result[t].error.type # "RateLimitError"

\* C17: an HTTP handler (chat or search) whose client call raised
\* RateLimitError answers 429, and one whose client call raised anything
\* else (the error of a response without choices, an unclassified upstream
\* error) answers 500; 429 is answered only to RateLimitError and 500 only
\* to another failure.
C17_HttpStatusOfFailures ==
    \A t \in DOMAIN pc :
        (surface[t] = "http" /\ pc[t] = "done") =>
            /\ EndedRateLimited(t) <=> reply[t].status = IntVal(429)
            /\ EndedOtherFailure(t) <=> reply[t].status = IntVal(500)
            /\ result[t].kind = "raise" <=> reply[t].kind = "HTTPException"

C17_Witness ==
    /\ surface["t1"] = "http" /\ op["t1"] = "search"
    /\ EndedRateLimited("t1")
    /\ reply["t1"] = HTTPException(429, DetailRateLimited)
    /\ surface["t2"] = "http" /\ op["t2"] = "chat"
    /\ EndedOtherFailure("t2")
    /\ result["t2"].error = NoChoicesError
    /\ reply["t2"].status = IntVal(500)
    /\ reply["t2"].detail = ChatApiError \o StrOf(NoChoicesError)

\* C18: a UI handler whose client call raised RateLimitError gives an
\* indication other than the one it gives for a failure of another type with
\* the same text.
C18_UiTellsRateLimitApart ==
    \A t \in DOMAIN pc :
        (surface[t] = "ui" /\ EndedRateLimited(t)) =>
            reply[t] # UiReply(op[t], args[t],
                               Raise(Exc("Exception", StrOf(result[t].error))))

C18_Witness ==
    \E t \in DOMAIN pc :
        /\ surface[t] = "ui"
        /\ EndedRateLimited(t)
        /\ reply[t] = GrError(ChatFailed \o Msg429)

\* The outcome that the upstream calls of task t alone determine.
OwnOutcome(t) ==
    LET last == upstream[t][Len(upstream[t])]
    IN  IF last.kind = "ok"
        THEN IF op[t] = "chat" THEN ChatOutcome(last.response.val)
             ELSE SearchOutcome(last.response.val)
        ELSE IF IsRateLimitError(last.error)
        THEN Raise(RateLimitError(StrOf(last.error)))
        ELSE Raise(last.error)

\* C19: with several calls in flight, interleaved in any way, each call
\* counts its own attempts (its counter follows the number of its own
\* upstream calls), makes at most 3 upstream calls, sleeps once per retry of
\* its own, and ends with the outcome its own upstream calls determine: it
\* ends in RateLimitError only after 3 rate-limit failures of its own.
C19_CallsShareNoState ==
    \A t \in DOMAIN pc :
        /\ Len(upstream[t]) <= 3
        /\ pc[t] = "attempt" =>
               /\ attempt[t] = Len(upstream[t])
               /\ Len(sleeps[t]) = Len(upstream[t])
        /\ pc[t] \in {"failed", "responded", "done"} =>
               /\ attempt[t] = Len(upstream[t]) - 1
               /\ Len(sleeps[t]) = Len(upstream[t]) - 1
        /\ pc[t] = "sleeping" =>
               /\ attempt[t] = Len(upstream[t]) - 1
               /\ Len(sleeps[t]) = Len(upstream[t])
        /\ \A i \in 1..(Len(upstream[t]) - 1) : RateLimited(t, i)
        /\ pc[t] = "done" =>
               /\ result[t] = OwnOutcome(t)
               /\ EndedRateLimited(t) =>
                      /\ Len(upstream[t]) = 3
                      /\ RateLimited(t, 3)

C19_Witness ==
    /\ pc["t1"] = "sleeping"
    /\ attempt["t1"] = 1
    /\ Len(upstream["t1"]) = 2
    /\ EndedRateLimited("t2")
    /\ Len(upstream["t2"]) = 3
    /\ op["t1"] # op["t2"]

\* The places of a call between the start of an attempt and the end of the
\* classification of its outcome or of the normalization of its response.
Busy == {"attempt", "failed", "responded"}

\* Nothing of task u changes.
Untouched(u) ==
    /\ pc'[u] = pc[u]
    /\ attempt'[u] = attempt[u]
    /\ upstream'[u] = upstream[u]
    /\ sleeps'[u] = sleeps[u]
    /\ result'[u] = result[u]
    /\ reply'[u] = reply[u]

\* C20: a call that sleeps does not hold the event loop, and every other
\* task that is idle, over or due to wake can then take a step (a request,
\* while requests are taken, or its wake-up); a call that
\* is in an attempt, classifying its failure or normalizing its response
\* holds the event loop, and no step taken then touches another task.
C20_YieldsOnlyAtBackoff ==
    /\ [](\A t \in DOMAIN pc :
            /\ pc[t] = "sleeping" => running # t
            /\ (pc[t] = "sleeping" /\ running = NoTask
                    /\ Requests < MaxRequests) =>
                   \A u \in DOMAIN pc \ {t} : ENABLED (Request(u) \/ Wake(u))
            /\ pc[t] \in Busy => running = t)
    /\ [][\A t \in DOMAIN pc :
             pc[t] \in Busy => \A u \in DOMAIN pc \ {t} : Untouched(u)]_vars

C20_Witness ==
    /\ pc["t1"] = "sleeping"
    /\ sleeps["t1"] = <<1>>
    /\ pc["t2"] = "failed"
    /\ running = "t2"
    /\ Len(upstream["t2"]) = 2

\* Task t has called the client.
InCall(t) == pc[t] \notin {"idle", "rejected"}

\* C21, as claimed: no provider handle is used by more than one operation
\* of the handlers, on the HTTP surface and on the UI surface.
C21_NoHandleIsUsedTwice ==
    \A h \in 1..Len(uses) : uses[h] <= 1

\* C21: each operation of the UI surface has a provider handle of its own,
\* made for it and used by no other operation; the operations of the HTTP
\* surface all use the one handle made when the application was created.
C21_FreshHandlePerUiOperation ==
    /\ \A h \in 1..Len(uses) : h # AppHandle => uses[h] = 1
    /\ \A t \in DOMAIN pc :
          InCall(t) =>
            /\ surface[t] = "http" => handle[t] = AppHandle
            /\ surface[t] = "ui" =>
                  /\ handle[t] \in 2..Len(uses)
                  /\ \A u \in DOMAIN pc \ {t} :
                        InCall(u) => handle[u] # handle[t]

C21_Witness ==
    /\ uses = <<2, 1>>
    /\ surface["t1"] = "http" /\ pc["t1"] = "sleeping"
    /\ surface["t2"] = "ui" /\ pc["t2"] = "done"
    /\ handle["t1"] = AppHandle
    /\ handle["t2"] = 2

\* The values of a search are in the ranges of the schema, and there is a
\* query.
InRange(a) ==
    /\ a.max_results.val \in 1..50
    /\ a.max_tokens_per_page.val \in 256..4096
    /\ a.query.val # <<>>

\* C22: an HTTP search request is refused by the validation of its body,
\* with no upstream call, exactly when its max_results is outside 1..50, its
\* max_tokens_per_page is outside 256..4096 or its query is empty, so that
\* the HTTP handler calls the client with values in range only; the client
\* checks nothing, and every upstream call of a search carries the query,
\* the max_results and the max_tokens_per_page that the client was given.
C22_RangesAreCheckedBySchemaOnly ==
    \A t \in DOMAIN pc :
        op[t] = "search" =>
            /\ (surface[t] = "http" /\ pc[t] # "idle") =>
                   /\ pc[t] = "rejected" <=> ~InRange(SearchQueryArgs(args[t]))
                   /\ pc[t] = "rejected" =>
                          /\ upstream[t] = <<>>
                          /\ reply[t] = RequestValidationError
            /\ \A i \in 1..Len(upstream[t]) :
                   /\ upstream[t][i].payload.query = args[t].query
                   /\ upstream[t][i].payload.max_results = args[t].max_results
                   /\ upstream[t][i].payload.max_tokens_per_page
                          = args[t].max_tokens_per_page

C22_Witness ==
    \E t \in DOMAIN pc :
        /\ op[t] = "search"
        /\ surface[t] = "http"
        /\ pc[t] = "rejected"
        /\ args[t].max_results = IntVal(51)
        /\ upstream[t] = <<>>
        /\ Requests = 2

\* The client forwards a max_results that no schema has checked.
C22_ForwardedUnchecked ==
    \E t \in DOMAIN pc :
        /\ op[t] = "search"
        /\ surface[t] = "ui"
        /\ Len(upstream[t]) = 2
        /\ upstream[t][2].payload.max_results = IntVal(100)

\* The retry loop of task t is running.
InRetryLoop(t) == pc[t] \in {"attempt", "failed", "sleeping"}

\* The retry loop of task t has returned the response of its last attempt.
LoopReturned(t) ==
    /\ pc[t] = "responded"
    /\ upstream[t] # <<>>
    /\ upstream[t][Len(upstream[t])].kind = "ok"
    /\ response[t] = upstream[t][Len(upstream[t])].response
    /\ response[t] # NoneVal

\* The retry loop of task t has raised RateLimitError, or the error of its
\* last attempt as it was.
LoopRaised(t) ==
    /\ pc[t] = "done"
    /\ result[t].kind = "raise"
    /\ upstream[t] # <<>>
    /\ upstream[t][Len(upstream[t])].kind = "error"
    /\ \/ result[t].error = upstream[t][Len(upstream[t])].error
       \/ result[t].error.type = "RateLimitError"

\* C23: while the provider answers or fails each call, a retry loop that was
\* entered comes to its end; it ends with the response of a successful
\* attempt, with RateLimitError or with the error of its last attempt, never
\* without a value or an error, and never makes a fourth attempt.
C23_RetryLoopTerminates ==
    /\ [](\A t \in Tasks :
            /\ Len(upstream[t]) <= 3
            /\ InRetryLoop(t) => attempt[t] < 3
            /\ pc[t] = "responded" => LoopReturned(t)
            /\ (pc[t] = "done" /\ upstream[t][Len(upstream[t])].kind = "error")
                   => LoopRaised(t))
    /\ \A t \in Tasks :
          InRetryLoop(t) ~> (LoopReturned(t) \/ LoopRaised(t))

C23_Witness ==
    \E t \in Tasks :
        /\ Len(upstream[t]) = 3
        /\ LoopReturned(t)
        /\ sleeps[t] = <<1, 2>>

\* C24: a call that ends in RateLimitError has made exactly 3 upstream calls,
\* all three failed with a rate-limit-classified error, and it has slept
\* exactly twice; a call that ends after 1 or 2 upstream calls ends with a
\* value or with an error that is not RateLimitError and is not classified
\* as a rate limit.
C24_RateLimitErrorOnlyAfterThirdFailure ==
    \A t \in Tasks :
        /\ EndedRateLimited(t) =>
               /\ Len(upstream[t]) = 3
               /\ \A i \in 1..3 : RateLimited(t, i)
               /\ Len(sleeps[t]) = 2
               /\ StrOf(result[t].error) = StrOf(upstream[t][3].error)
        /\ (pc[t] = "done" /\ Len(upstream[t]) < 3 /\ result[t].kind = "raise") =>
               /\ result[t].error.type # "RateLimitError"
               /\ ~IsRateLimitError(result[t].error)

C24_Witness ==
    \E t \in Tasks :
        /\ pc[t] = "done"
        /\ Len(upstream[t]) = 2
        /\ RateLimited(t, 1)
        /\ OtherFailure(t, 2)
        /\ result[t] = Raise(upstream[t][2].error)
        /\ sleeps[t] = <<1>>

\* C25: sleeps and attempts alternate.  A call has slept once for each
\* attempt but its first; each failure it slept on was classified as a rate
\* limit and was not the failure of the third attempt; a call that is over
\* has slept once less than it has called upstream; and the step out of a
\* sleep leads to a new attempt, which makes one upstream call before the
\* call sleeps again.
C25_SleepsAndAttemptsAlternate ==
    /\ [](\A t \in Tasks :
            /\ Len(sleeps[t]) = IF pc[t] = "sleeping" THEN attempt[t] + 1
                                 ELSE attempt[t]
            /\ Len(upstream[t]) = IF pc[t] \in {"idle", "attempt", "rejected"}
                                   THEN attempt[t] ELSE attempt[t] + 1
            /\ \A i \in 1..Len(sleeps[t]) : i < 3 /\ RateLimited(t, i)
            /\ pc[t] = "done" => Len(sleeps[t]) = Len(upstream[t]) - 1)
    /\ [][\A t \in Tasks :
             /\ (pc[t] = "sleeping" /\ pc'[t] # "sleeping") =>
                    /\ pc'[t] = "attempt"
                    /\ upstream'[t] = upstream[t]
                    /\ sleeps'[t] = sleeps[t]
             /\ (sleeps'[t] # sleeps[t] /\ sleeps'[t] # <<>>) =>
                    /\ pc[t] = "failed"
                    /\ pc'[t] = "sleeping"
                    /\ Len(sleeps'[t]) = Len(sleeps[t]) + 1
                    /\ Len(upstream[t]) = Len(sleeps'[t])]_vars

C25_Witness ==
    \E t \in Tasks :
        /\ pc[t] = "done"
        /\ Len(sleeps[t]) = 2
        /\ Len(upstream[t]) = 3
        /\ OtherFailure(t, 3)

\* The response of the last upstream call of task t.
LastResponse(t) == upstream[t][Len(upstream[t])].response.val

\* C26: the ChatResult of a chat that returned is made of the response of
\* its last, successful, attempt: id, model and created as they came, the
\* content and the finish_reason of the first choice, however many choices
\* there are, and a usage with the keys prompt_tokens, completion_tokens and
\* total_tokens only, each with the counter of the response.
C26_ChatResultOfFirstChoice ==
    \A t \in Tasks :
        (pc[t] = "done" /\ op[t] = "chat" /\ result[t].kind = "return") =>
            /\ upstream[t][Len(upstream[t])].kind = "ok"
            /\ result[t].value.id = LastResponse(t).id
            /\ result[t].value.model = LastResponse(t).model
            /\ result[t].value.created = LastResponse(t).created
            /\ result[t].value.content
                   = LastResponse(t).choices.val[1].message.content
            /\ result[t].value.finish_reason
                   = LastResponse(t).choices.val[1].finish_reason
            /\ DOMAIN result[t].value.usage
                   = {"prompt_tokens", "completion_tokens", "total_tokens"}
            /\ \A k \in DOMAIN result[t].value.usage :
                   result[t].value.usage[k] = LastResponse(t).usage[k]

C26_Witness ==
    \E t \in Tasks :
        /\ pc[t] = "done" /\ op[t] = "chat" /\ result[t].kind = "return"
        /\ Len(upstream[t]) = 2
        /\ Len(LastResponse(t).choices.val) = 2
        /\ LastResponse(t).choices.val[1] # LastResponse(t).choices.val[2]
        /\ "citation_tokens" \in DOMAIN LastResponse(t).usage
        /\ result[t].value.content = ChoiceLength.message.content
        /\ result[t].value.usage.total_tokens = IntVal(15)

(***************************************************************************)
(* C27: _get_search_result_value(row, field, default) returns the row's    *)
(* value for the field when the row has it, and the default (None when no  *)
(* default is given) when it has not.  A dict row has a field exactly when  *)
(* it has the key, whatever attributes it carries: there is no fall-back   *)
(* to attribute access.  Any other row has a field exactly when it has the *)
(* attribute.                                                              *)
(***************************************************************************)
LookupGiven == IF Len(arg) >= 3 THEN arg[3] ELSE NoneVal

LookupFields == IF arg[1].isdict THEN arg[1].items ELSE arg[1].attrs

C27_LookupByKeyOrAttribute ==
    fn = "_get_search_result_value" =>
        /\ arg[2] \in DOMAIN LookupFields => ret = LookupFields[arg[2]]
        /\ arg[2] \notin DOMAIN LookupFields => ret = LookupGiven

\* A dict without the key but with an attribute of that name, looked up
\* without a default: the result is None, not the attribute.
C27_Witness ==
    /\ fn = "_get_search_result_value"
    /\ Len(arg) = 2
    /\ arg[1].isdict
    /\ arg[2] \notin DOMAIN arg[1].items
    /\ arg[2] \in DOMAIN arg[1].attrs
    /\ arg[1].attrs[arg[2]] = TitlePython
    /\ ret = NoneVal

(***************************************************************************)
(* C28: what search returns, and a non-null search_results of what chat    *)
(* returns, has one SearchResult per upstream row, in the upstream order:  *)
(* the i-th is made of the i-th row, so that no row is dropped, merged,    *)
(* deduplicated or moved.  The number of rows is the upstream's, whatever  *)
(* max_results the call was given.                                         *)
(***************************************************************************)
RowOf(t, r) == IF op[t] = "search" THEN SearchRow(r) ELSE ChatRow(r)

C28_OneResultPerRowInOrder ==
    \A t \in Tasks :
        (pc[t] = "done" /\ result[t].kind = "return")
        => /\ Len(OutRows(t)) = Len(RawRows(t))
           /\ \A i \in 1..Len(RawRows(t)) :
                 OutRows(t)[i] = RowOf(t, RawRows(t)[i])
           /\ op[t] = "search" =>
                 Len(result[t].value.val) = Len(response[t].val.results.val)

\* A search for at most one result that was answered with two different rows
\* returns both, in their order.
C28_Witness ==
    \E t \in Tasks :
        /\ pc[t] = "done"
        /\ op[t] = "search"
        /\ result[t].kind = "return"
        /\ args[t].max_results = IntVal(1)
        /\ Len(response[t].val.results.val) = 2
        /\ Len(result[t].value.val) = 2
        /\ result[t].value.val[1] # result[t].value.val[2]
        /\ result[t].value.val[1] = SearchRow(response[t].val.results.val[1])

\* Two equal rows are both kept.
C28_EqualRowsKept ==
    \E t \in Tasks :
        /\ pc[t] = "done"
        /\ op[t] = "chat"
        /\ result[t].kind = "return"
        /\ Len(RawRows(t)) = 2
        /\ RawRows(t)[1] = RawRows(t)[2]
        /\ Len(result[t].value.search_results.val) = 2

(***************************************************************************)
(* C29: chat and search leave the client as it was.  The client of the     *)
(* application holds the one provider handle through every call and from   *)
(* one call to the next; and a call that follows a call that is over,      *)
(* whether that one returned, raised RateLimitError or raised another       *)
(* error, starts as the first call of a new client does: attempt index 0,  *)
(* nothing sent, nothing slept, no error remembered.  So every call has    *)
(* the budget of 3 attempts and a first backoff of 1.                      *)
(***************************************************************************)
StartsAfresh(t) ==
    /\ attempt[t] = 0
    /\ upstream[t] = <<>>
    /\ sleeps[t] = <<>>
    /\ lastError[t] = NoError
    /\ response[t] = NoneVal
    /\ result[t] = Pending

C29_CallsLeaveClientUnchanged ==
    /\ [][\A t \in Tasks :
            /\ (InCall(t) /\ pc'[t] # "attempt") => handle'[t] = handle[t]
            /\ (pc[t] = "done" /\ pc'[t] = "attempt") => StartsAfresh(t)']_vars
    /\ [](\A t \in Tasks :
            /\ (InCall(t) /\ surface[t] = "http") => handle[t] = AppHandle
            /\ attempt[t] \in 0..(MAX_RETRIES - 1)
            /\ sleeps[t] # <<>> => sleeps[t][1] = RETRY_BASE_DELAY
            /\ EndedRateLimited(t) => Len(upstream[t]) = MAX_RETRIES)

\* The second call of the application's client has used all 3 attempts and
\* has slept 1 and then 2.
C29_Witness ==
    \E t \in Tasks :
        /\ surface[t] = "http"
        /\ handle[t] = AppHandle
        /\ uses[AppHandle] = 2
        /\ EndedRateLimited(t)
        /\ Len(upstream[t]) = 3
        /\ sleeps[t] = <<1, 2>>

(***************************************************************************)
(* C30: every attempt of one call of chat or search sends the same         *)
(* payload.  The operation and the arguments of a call do not change while *)
(* the call goes on, and the payload of each attempt is the one made of    *)
(* them: it has the keys and the values of the payload of the first        *)
(* attempt.                                                                *)
(***************************************************************************)
C30_SamePayloadEveryAttempt ==
    /\ [](\A t \in Tasks : \A i \in 1..Len(upstream[t]) :
            /\ upstream[t][i].payload = Kwargs(op[t], args[t])
            /\ DOMAIN upstream[t][i].payload = DOMAIN upstream[t][1].payload
            /\ upstream[t][i].payload = upstream[t][1].payload)
    /\ [][\A t \in Tasks :
            pc[t] \notin {"idle", "done", "rejected"}
            => /\ args'[t] = args[t]
               /\ op'[t] = op[t]]_vars

\* A search with a recency filter, answered at the third attempt: the three
\* payloads carry the filter.
C30_Witness ==
    \E t \in Tasks :
        /\ op[t] = "search"
        /\ args[t].search_recency_filter = StrMonth
        /\ Len(upstream[t]) = 3
        /\ upstream[t][1].kind = "error"
        /\ upstream[t][2].kind = "error"
        /\ upstream[t][3].kind = "ok"
        /\ \A i \in 1..3 :
              /\ "search_recency_filter" \in DOMAIN upstream[t][i].payload
              /\ upstream[t][i].payload["search_recency_filter"] = StrMonth

(***************************************************************************)
(* C31: the chat endpoint keeps absent apart from empty.  When the         *)
(* ChatResult it was given has search_results None, or an empty list, the  *)
(* search_results of its response is null; otherwise it has one item per   *)
(* SearchResult, the i-th made of the i-th.  So the search_results of a    *)
(* chat response is never an empty list.                                   *)
(***************************************************************************)
C31_ChatResponseNeverCarriesEmptyList ==
    (fn = "_chat" /\ arg.kind = "return") =>
        LET given == arg.value.search_results
            sent == ret.body.search_results
        IN  /\ ret.kind = "response"
            /\ sent # List(<<>>)
            /\ (given = NoneVal \/ given = List(<<>>)) => sent = NoneVal
            /\ (given.kind = "list" /\ Len(given.val) > 0) =>
                   /\ sent.kind = "list"
                   /\ Len(sent.val) = Len(given.val)
                   /\ \A i \in 1..Len(given.val) :
                         sent.val[i] = SearchResultToItem(given.val[i])

\* A ChatResult with an empty list is answered with null.
C31_Witness ==
    /\ fn = "_chat"
    /\ arg.kind = "return"
    /\ arg.value.search_results = List(<<>>)
    /\ ret.kind = "response"
    /\ ret.body.search_results = NoneVal

\* A ChatResult with two different results is answered with both, in order.
C31_TwoItemsInOrder ==
    /\ fn = "_chat"
    /\ arg.kind = "return"
    /\ Len(arg.value.search_results.val) = 2
    /\ arg.value.search_results.val[1] # arg.value.search_results.val[2]
    /\ ret.body.search_results.val[1].title = arg.value.search_results.val[1].title
    /\ ret.body.search_results.val[1] # ret.body.search_results.val[2]

=============================================================================
